---- MODULE Spec2Model ----
(***************************************************************************)
(* Trace interpretation engine of the RAG debug toolkit                    *)
(* (src/src/extension.ts): event parser, state diff engine, timing         *)
(* reconstructor and anomaly (slow step) detector.                         *)
(*                                                                         *)
(* JSON values are tagged records [t, v]:                                  *)
(*   undef / null : v = 0          bool : v \in BOOLEAN                    *)
(*   num  : v \in Int              str  : v a string                       *)
(*   inf  : the number Infinity (JSON.parse of 1e999), v = 0               *)
(*   arr  : v a sequence of values                                         *)
(*   obj  : v a sequence of <<key, value>> pairs in insertion order        *)
(***************************************************************************)
EXTENDS Integers, Sequences, FiniteSets, TLC

VARIABLES
    text,        \* parser: the token text handed to parseTraceEventsFromText
    parsed,      \* parser: the TraceEvent[] it returned
    pcParse,     \* parser: "edit" while the text is written, "done" after the call
    prevState,   \* diff: first argument of diffTopLevel
    nextState,   \* diff: second argument of diffTopLevel
    delta,       \* diff: the mapping diffTopLevel returned, as a sequence of
                 \*       [key, from, to] entries in insertion order
    refDelta,    \* diff: the mapping returned for the snapshots as first given
    pcDiff,      \* diff: "first", "done" after diffTopLevel, "permuted" after the
                 \*       keys were reordered, "rediffed" after the second call
    events,      \* timing: the TraceEvent[] handed to buildTraceTiming
    timing,      \* timing: the {traceStartMs, steps} it returned
    pcTiming,    \* timing: "edit" while the trace is written, "done" after the call
    siblings,    \* explorer: the events of the other trace files in the active trace's folder
    docUri,      \* explorer: the [scheme, name] of the active document's uri
    sourceEvents,\* explorer: the events parsed from the active document
    stats,       \* explorer: the DurationStats built from the folder
    items,       \* explorer: the TraceStepItem[] returned by getChildren()
    children,    \* explorer: the TraceStepItem[] returned by getChildren(element)
    pcExplorer,  \* explorer: "scan" while the folder fills, "done" after getChildren()
    activeEditor,\* commands: TRUE when vscode.window.activeTextEditor is set
    pumlSource,  \* diagram: the events parsed from the active document
    latestTrace, \* diagram: log/pipeline_traces/latest.json, [exists, events]
    diagram,     \* diagram: what the open-diagram command did
    pcPuml,      \* diagram: "edit" while the trace is written, "done" after the command
    data,        \* transport: the bytes handed to plantUmlEncodeBytes
    encoded,     \* transport: the text it returned
    pcEncode,    \* transport: "edit" while the bytes are written, "done" after the call
    cfgBaseUrl,  \* transport: the configured pumlBaseUrl setting
    target,      \* transport: the {url, copyPumlToClipboard} of buildPumlRenderTarget
    pcRender,    \* transport: "ready" before buildPumlRenderTarget, "done" after
    stepArg,     \* step delta: args.stepIndex of the open-step-delta command
    outcome,     \* step delta: the warning shown and the report document opened
    pcCommand,   \* step delta: "idle" before the command, "done" after
    deltaView,   \* delta view: the warning shown and the report opened by the
                 \*             whole-trace Delta view command
    pcView,      \* delta view: "idle" before the command, "done" after
    verdict,     \* threshold: what percentile, allowedDurationMs and isStepSlow
                 \*            returned for the pools in stats, <<>> before
    pcThreshold  \* threshold: "sample" while the pools fill, "judged" after

parserVars == <<text, parsed, pcParse>>
diffVars == <<prevState, nextState, delta, refDelta, pcDiff>>
timingVars == <<events, timing, pcTiming>>
explorerVars == <<siblings, docUri, sourceEvents, stats, items, children, pcExplorer>>
pumlVars == <<pumlSource, latestTrace, diagram, pcPuml>>
encodeVars == <<data, encoded, pcEncode>>
renderVars == <<cfgBaseUrl, target, pcRender>>
commandVars == <<stepArg, outcome, pcCommand, deltaView, pcView>>
thresholdVars == <<verdict, pcThreshold>>
toolVars == <<activeEditor, pumlVars, encodeVars, renderVars, commandVars, thresholdVars>>
nonParserVars == <<diffVars, timingVars, explorerVars, toolVars>>
nonDiffVars == <<parserVars, timingVars, explorerVars, toolVars>>
nonTimingVars == <<parserVars, diffVars, explorerVars, toolVars>>
nonExplorerVars == <<parserVars, diffVars, timingVars, toolVars>>
engineVars == <<parserVars, diffVars, timingVars, explorerVars>>
vars == <<text, parsed, pcParse, prevState, nextState, delta, refDelta, pcDiff,
          events, timing, pcTiming,
          siblings, docUri, sourceEvents, stats, items, children, pcExplorer,
          activeEditor, pumlSource, latestTrace, diagram, pcPuml,
          data, encoded, pcEncode, cfgBaseUrl, target, pcRender,
          stepArg, outcome, pcCommand, deltaView, pcView, verdict, pcThreshold>>

\* the explorer before any trace is shown
ExplorerOff ==
    /\ siblings = <<>> /\ sourceEvents = <<>>
    /\ docUri = [scheme |-> "", name |-> ""]
    /\ stats = [perClass |-> <<>>, global |-> <<>>]
    /\ items = <<>> /\ children = <<>>
    /\ pcExplorer = "off"

\* no diagram command has run
PumlOff ==
    /\ pumlSource = <<>>
    /\ latestTrace = [exists |-> FALSE, events |-> <<>>]
    /\ diagram = [warning |-> "", puml |-> "", closed |-> "", opened |-> FALSE, clipboard |-> ""]
    /\ pcPuml = "off"

\* nothing has been encoded for the render server
TransportOff ==
    /\ data = <<>> /\ encoded = "" /\ pcEncode = "off"
    /\ cfgBaseUrl = [t |-> "undef", v |-> 0]
    /\ target = [url |-> "", copyPumlToClipboard |-> FALSE]
    /\ pcRender = "off"

\* no step delta command has run
CommandOff ==
    /\ stepArg = [t |-> "undef", v |-> 0]
    /\ outcome = [warning |-> "", report |-> [t |-> "null", v |-> 0], thrown |-> ""]
    /\ pcCommand = "off"
    /\ deltaView = [warning |-> "", report |-> [t |-> "null", v |-> 0]]
    /\ pcView = "off"

\* no threshold has been computed outside the explorer
ThresholdOff == verdict = <<>> /\ pcThreshold = "off"

\* the commands and the transport encoder at rest, an editor being open
ToolsOff == activeEditor = TRUE /\ PumlOff /\ TransportOff /\ CommandOff /\ ThresholdOff

----------------------------------------------------------------------------
(* JSON values *)

Undefined == [t |-> "undef", v |-> 0]
Null == [t |-> "null", v |-> 0]
Bool(b) == [t |-> "bool", v |-> b]
Num(n) == [t |-> "num", v |-> n]
Str(s) == [t |-> "str", v |-> s]
Infinity == [t |-> "inf", v |-> 0]
Arr(s) == [t |-> "arr", v |-> s]
Obj(kvs) == [t |-> "obj", v |-> kvs]

\* Array.isArray(x)
IsArray(x) == x.t = "arr"

\* x && typeof x === "object"   (arrays are objects, null is falsy)
IsObjectLike(x) == x.t \in {"arr", "obj"}

\* x == null   (null or undefined)
IsNullish(x) == x.t \in {"undef", "null"}

\* Object.keys(x): member names in insertion order, the indices of an array
ObjectKeys(x) ==
    IF x.t = "arr" THEN [i \in 1..Len(x.v) |-> ToString(i - 1)]
    ELSE [i \in 1..Len(x.v) |-> x.v[i][1]]

HasKey(x, k) == x.t = "obj" /\ \E i \in 1..Len(x.v) : x.v[i][1] = k

\* x[k] / x.k : the member of an object, the element of an array when k is
\* one of its indices, undefined otherwise
Get(x, k) ==
    IF HasKey(x, k)
    THEN x.v[CHOOSE i \in 1..Len(x.v) : x.v[i][1] = k][2]
    ELSE IF x.t = "arr" /\ \E i \in 1..Len(x.v) : ToString(i - 1) = k
    THEN x.v[CHOOSE i \in 1..Len(x.v) : ToString(i - 1) = k]
    ELSE Undefined

\* x[k] = val on an object under construction: a repeated key keeps its
\* first position and takes the last value
ObjSet(kvs, k, val) ==
    IF \E i \in 1..Len(kvs) : kvs[i][1] = k
    THEN [i \in 1..Len(kvs) |-> IF kvs[i][1] = k THEN <<k, val>> ELSE kvs[i]]
    ELSE Append(kvs, <<k, val>>)

----------------------------------------------------------------------------
(* JSON.parse over token texts.  A text is a sequence of tokens: the        *)
(* punctuation of JSON, line breaks and blanks, member keys (the key with   *)
(* its colon), and literals.  "A" and "B" are one-line object literals,     *)
(* "S" and "T" object literals that carry pipeline state, "1" a number,     *)
(* "null" the null literal and "x" a token that occurs in no JSON value.    *)

KeyTokens == {"pipeline_trace_events:", "trace_events:", "events:", "k:"}

KeyOf(tok) ==
    CASE tok = "pipeline_trace_events:" -> "pipeline_trace_events"
      [] tok = "trace_events:" -> "trace_events"
      [] tok = "events:" -> "events"
      [] OTHER -> "k"

LiteralTokens == {"A", "B", "S", "T", "U", "E", "1", "null"}

LiteralValue(tok) ==
    CASE tok = "A" -> Obj(<<<<"step_id", Str("A")>>>>)
      [] tok = "B" -> Obj(<<<<"step_id", Str("B")>>>>)
      [] tok = "S" -> Obj(<<<<"step_id", Str("S")>>, <<"message", Str("first")>>,
                            <<"state_after", Obj(<<<<"a", Num(1)>>>>)>>>>)
      [] tok = "T" -> Obj(<<<<"step", Obj(<<<<"id", Str("T")>>>>)>>,
                            <<"action", Obj(<<<<"class", Str("Rank")>>>>)>>,
                            <<"duration_ms", Num(500)>>,
                            <<"state_after", Obj(<<<<"a", Num(2)>>, <<"step_trace", Arr(<<Str("S"), Str("T")>>)>>>>)>>>>)
      [] tok = "U" -> Obj(<<<<"step_id", Str("U")>>,
                            <<"state_before", Obj(<<<<"a", Num(1)>>>>)>>,
                            <<"state_after", Obj(<<<<"a", Num(1)>>>>)>>>>)
      [] tok = "E" -> Obj(<<<<"step_id", Str("E")>>, <<"level", Str("error")>>,
                            <<"state_after", Obj(<<<<"a", Num(3)>>>>)>>>>)
      [] tok = "1" -> Num(1)
      [] OTHER -> Null

IsSpace(tok) == tok \in {"\n", " "}

ParseFail == [ok |-> FALSE, v |-> Undefined, i |-> 0]

RECURSIVE ParseValue(_, _)
RECURSIVE ParseElements(_, _, _)
RECURSIVE ParseMembers(_, _, _)

\* one JSON value starting at token i; .i is the position after it
ParseValue(toks, i) ==
    IF i > Len(toks) THEN ParseFail
    ELSE IF toks[i] \in LiteralTokens
         THEN [ok |-> TRUE, v |-> LiteralValue(toks[i]), i |-> i + 1]
    ELSE IF toks[i] = "["
         THEN IF i + 1 <= Len(toks) /\ toks[i + 1] = "]"
              THEN [ok |-> TRUE, v |-> Arr(<<>>), i |-> i + 2]
              ELSE ParseElements(toks, i + 1, <<>>)
    ELSE IF toks[i] = "{"
         THEN IF i + 1 <= Len(toks) /\ toks[i + 1] = "}"
              THEN [ok |-> TRUE, v |-> Obj(<<>>), i |-> i + 2]
              ELSE ParseMembers(toks, i + 1, <<>>)
    ELSE ParseFail

\* value ("," value)* "]"
ParseElements(toks, i, acc) ==
    LET r == ParseValue(toks, i) IN
    IF ~r.ok \/ r.i > Len(toks) THEN ParseFail
    ELSE IF toks[r.i] = "]"
         THEN [ok |-> TRUE, v |-> Arr(Append(acc, r.v)), i |-> r.i + 1]
    ELSE IF toks[r.i] = ","
         THEN ParseElements(toks, r.i + 1, Append(acc, r.v))
    ELSE ParseFail

\* key value ("," key value)* "}"
ParseMembers(toks, i, acc) ==
    IF i > Len(toks) \/ toks[i] \notin KeyTokens THEN ParseFail
    ELSE LET r == ParseValue(toks, i + 1) IN
         IF ~r.ok \/ r.i > Len(toks) THEN ParseFail
         ELSE IF toks[r.i] = "}"
              THEN [ok |-> TRUE, v |-> Obj(ObjSet(acc, KeyOf(toks[i]), r.v)), i |-> r.i + 1]
         ELSE IF toks[r.i] = ","
              THEN ParseMembers(toks, r.i + 1, ObjSet(acc, KeyOf(toks[i]), r.v))
         ELSE ParseFail

\* JSON.parse(text): blanks and line breaks between tokens are insignificant,
\* the whole text must be one value; .ok = FALSE stands for the SyntaxError
JsonParse(toks) ==
    LET body == SelectSeq(toks, LAMBDA tok : ~IsSpace(tok))
        r == ParseValue(body, 1)
    IN IF r.ok /\ r.i = Len(body) + 1 THEN [ok |-> TRUE, v |-> r.v] ELSE [ok |-> FALSE, v |-> Undefined]

\* text.split(/\r?\n/)
RECURSIVE SplitLines(_)
SplitLines(toks) ==
    IF \A i \in 1..Len(toks) : toks[i] # "\n" THEN <<toks>>
    ELSE LET n == CHOOSE i \in 1..Len(toks) : toks[i] = "\n" /\ \A j \in 1..(i - 1) : toks[j] # "\n"
         IN <<SubSeq(toks, 1, n - 1)>> \o SplitLines(SubSeq(toks, n + 1, Len(toks)))

\* line.trim()
RECURSIVE TrimTokens(_)
TrimTokens(toks) ==
    IF toks = <<>> THEN toks
    ELSE IF IsSpace(Head(toks)) THEN TrimTokens(Tail(toks))
    ELSE IF IsSpace(toks[Len(toks)]) THEN TrimTokens(SubSeq(toks, 1, Len(toks) - 1))
    ELSE toks

----------------------------------------------------------------------------
(* Event parser *)

\* faulty variant: the loop gives up at the first line that does not parse
RECURSIVE ParseJsonLines_StopAtBadLine(_, _, _)
ParseJsonLines_StopAtBadLine(lines, i, out) ==
    IF i > Len(lines) THEN out
    ELSE LET t == TrimTokens(lines[i])
             o == JsonParse(t)
         IN IF t = <<>> THEN ParseJsonLines_StopAtBadLine(lines, i + 1, out)
            ELSE IF ~o.ok THEN out
            ELSE IF IsObjectLike(o.v) THEN ParseJsonLines_StopAtBadLine(lines, i + 1, Append(out, o.v))
            ELSE ParseJsonLines_StopAtBadLine(lines, i + 1, out)

\* the JSONL loop of parseTraceEventsFromText: lines[i..] appended to out
RECURSIVE ParseJsonLines(_, _, _)
ParseJsonLines(lines, i, out) ==
    IF i > Len(lines) THEN out
    ELSE LET t == TrimTokens(lines[i])
             o == JsonParse(t)
         IN IF t = <<>> THEN ParseJsonLines(lines, i + 1, out)
            ELSE IF o.ok /\ IsObjectLike(o.v) THEN ParseJsonLines(lines, i + 1, Append(out, o.v))
            ELSE ParseJsonLines(lines, i + 1, out)

\* the first array among parsed.pipeline_trace_events, .trace_events, .events
EventCandidates(p) == <<Get(p, "pipeline_trace_events"), Get(p, "trace_events"), Get(p, "events")>>

FirstArrayCandidate(p) ==
    LET c == EventCandidates(p)
        hits == {i \in 1..Len(c) : IsArray(c[i])}
    IN IF hits = {} THEN Undefined ELSE c[CHOOSE i \in hits : \A j \in hits : i <= j]

\* faulty variant: a text that parses as one JSON value never reaches the
\* JSONL loop
parseTraceEventsFromText_ParsedIsFinal(txt) ==
    IF txt = <<>> THEN <<>>
    ELSE LET doc == JsonParse(txt) IN
         IF doc.ok /\ IsObjectLike(doc.v) /\ IsArray(FirstArrayCandidate(doc.v))
         THEN FirstArrayCandidate(doc.v).v
         ELSE IF doc.ok /\ IsArray(doc.v) THEN doc.v.v
         ELSE IF doc.ok THEN <<>>
         ELSE ParseJsonLines(SplitLines(txt), 1, <<>>)

\* faulty variant: the object filter of the JSONL loop applied to a raw array too
parseTraceEventsFromText_FilterArray(txt) ==
    IF txt = <<>> THEN <<>>
    ELSE LET doc == JsonParse(txt) IN
         IF doc.ok /\ IsObjectLike(doc.v) /\ IsArray(FirstArrayCandidate(doc.v))
         THEN FirstArrayCandidate(doc.v).v
         ELSE IF doc.ok /\ IsArray(doc.v) THEN SelectSeq(doc.v.v, IsObjectLike)
         ELSE ParseJsonLines(SplitLines(txt), 1, <<>>)

parseTraceEventsFromText(txt) ==
    IF txt = <<>> THEN <<>>
    ELSE LET doc == JsonParse(txt) IN
         IF doc.ok /\ IsObjectLike(doc.v) /\ IsArray(FirstArrayCandidate(doc.v))
         THEN FirstArrayCandidate(doc.v).v
         ELSE IF doc.ok /\ IsArray(doc.v) THEN doc.v.v
         ELSE ParseJsonLines(SplitLines(txt), 1, <<>>)

----------------------------------------------------------------------------
(* Parser specification: a document is written line by line, then parsed *)

MaxLines == 3

LineChoices ==
    { <<>>, <<" ">>, <<"x">>, <<"A">>, <<"B">>, <<"1">>, <<"null">>,
      <<"[">>, <<"]">>, <<"{">>, <<"}">>, <<"A", ",">>, <<" ", "B", " ">>,
      <<"[", "A", "]">>, <<"[", "A", ",", "B", "]">>, <<"[", "1", ",", "A", "]">>,
      <<"[", "]">>, <<"{", "}">>, <<"{", "k:", "A", "}">>,
      <<"{", "events:", "[", "B", "]", "}">>,
      <<"{", "events:", "1", ",", "trace_events:", "[", "A", "]", "}">>,
      <<"{", "events:", "[", "B", "]", ",", "pipeline_trace_events:", "[", "A", "]", "}">>,
      <<"{", "events:", "[", "A", "]", ",", "events:", "[", "B", "]", "}">> }

NumLines(txt) == IF txt = <<>> THEN 0 ELSE Len(SplitLines(txt))

InitParser ==
    /\ text = <<>>
    /\ parsed = <<>>
    /\ pcParse = "edit"
    /\ prevState = Null /\ nextState = Null
    /\ delta = <<>> /\ refDelta = <<>>
    /\ pcDiff = "off"
    /\ events = <<>> /\ timing = [traceStartMs |-> Null, steps |-> <<>>]
    /\ pcTiming = "off"
    /\ ExplorerOff
    /\ ToolsOff

\* the producer writes the first line of the document
WriteFirstLine ==
    /\ pcParse = "edit"
    /\ text = <<>>
    /\ \E l \in LineChoices \ {<<>>} : text' = l
    /\ UNCHANGED <<parsed, pcParse>>
    /\ UNCHANGED nonParserVars

\* the producer appends a line break and one more line
WriteNextLine ==
    /\ pcParse = "edit"
    /\ text # <<>>
    /\ NumLines(text) < MaxLines
    /\ \E l \in LineChoices : text' = text \o <<"\n">> \o l
    /\ UNCHANGED <<parsed, pcParse>>
    /\ UNCHANGED nonParserVars

ParseTraceEvents ==
    /\ pcParse = "edit"
    /\ parsed' = parseTraceEventsFromText(text)
    /\ pcParse' = "done"
    /\ UNCHANGED text
    /\ UNCHANGED nonParserVars

NextParser == WriteFirstLine \/ WriteNextLine \/ ParseTraceEvents

SpecParser == InitParser /\ [][NextParser]_vars

----------------------------------------------------------------------------
(* Parser properties *)

\* C1: a text that is a well-formed JSON array is returned element for
\* element: same length, same elements, same order.
C1_ArrayReturnedExactly ==
    (pcParse = "done" /\ JsonParse(text).ok /\ IsArray(JsonParse(text).v))
        => /\ Len(parsed) = Len(JsonParse(text).v.v)
           /\ \A i \in 1..Len(parsed) : parsed[i] = JsonParse(text).v.v[i]

\* a parsed two-element array whose first element is not an object
C1_Witness ==
    /\ pcParse = "done"
    /\ JsonParse(text).ok /\ IsArray(JsonParse(text).v)
    /\ Len(parsed) = 2 /\ parsed[1] = Num(1) /\ parsed[2].t = "obj"

\* the whole-document step of parseTraceEventsFromText returned nothing,
\* so the text went through the JSONL loop
InLineMode(txt) ==
    /\ txt # <<>>
    /\ LET doc == JsonParse(txt) IN
       ~(doc.ok /\ (IsArray(FirstArrayCandidate(doc.v)) \/ IsArray(doc.v)))

LineIsMalformed(l) == TrimTokens(l) # <<>> /\ ~JsonParse(TrimTokens(l)).ok

LineIsEvent(l) == JsonParse(TrimTokens(l)).ok /\ IsObjectLike(JsonParse(TrimTokens(l)).v)

RECURSIVE JoinLines(_)
JoinLines(lines) ==
    IF lines = <<>> THEN <<>>
    ELSE IF Len(lines) = 1 THEN lines[1]
    ELSE lines[1] \o <<"\n">> \o JoinLines(Tail(lines))

\* the same text with its malformed lines removed
WithoutMalformed(txt) == JoinLines(SelectSeq(SplitLines(txt), LAMBDA l : ~LineIsMalformed(l)))

\* the values of the lines that are events, in document order
ExpectedLineEvents(txt) ==
    LET good == SelectSeq(SplitLines(txt), LineIsEvent)
    IN [i \in 1..Len(good) |-> JsonParse(TrimTokens(good[i])).v]

\* the text is one JSON value that is neither an array nor an object with an
\* array under pipeline_trace_events, trace_events or events
ParsedWithoutEvents(txt) ==
    /\ txt # <<>>
    /\ JsonParse(txt).ok
    /\ ~IsArray(JsonParse(txt).v)
    /\ \A name \in {"pipeline_trace_events", "trace_events", "events"} :
           ~IsArray(Get(JsonParse(txt).v, name))

C26_SpreadWitness ==
    /\ pcParse = "done"
    /\ text = <<"{", "\n", "}">>
    /\ ParsedWithoutEvents(text)
    /\ parsed = <<>>

\* C2 (as claimed): in line-delimited mode the result equals the result of
\* parseTraceEventsFromText on the same text with the malformed lines removed.
C2_Original ==
    (pcParse = "done" /\ InLineMode(text))
        => parsed = parseTraceEventsFromText(WithoutMalformed(text))

\* C2 (amended): in line-delimited mode a blank or malformed line contributes
\* nothing and affects no other line: the result is exactly the values of the
\* lines that parse to an object, in document order, which is also what the
\* line-by-line pass returns for the text with the malformed lines removed.
C2_LineIsolation ==
    (pcParse = "done" /\ InLineMode(text))
        => /\ parsed = ExpectedLineEvents(text)
           /\ parsed = ParseJsonLines(SplitLines(WithoutMalformed(text)), 1, <<>>)

\* a malformed first line, a blank line, and a valid line that is returned
C2_Witness ==
    /\ pcParse = "done"
    /\ InLineMode(text)
    /\ NumLines(text) = 3
    /\ LineIsMalformed(SplitLines(text)[1])
    /\ TrimTokens(SplitLines(text)[2]) = <<>>
    /\ LineIsEvent(SplitLines(text)[3])
    /\ Len(parsed) = 1

----------------------------------------------------------------------------
(* State diff engine *)

TruncateLen == 5000
MaxArrayItems == 20
MaxObjectKeys == 30

\* member names used in snapshots, in the order of Array.prototype.sort
\* (UTF-16 code units): "a" < "b" < "k01" < ... < "k31" < "x" < "y" < "z"
KeyName(i) == "k" \o (IF i < 10 THEN "0" ELSE "") \o ToString(i)

KeyOrder == <<"a", "b">> \o [i \in 1..(MaxObjectKeys + 1) |-> KeyName(i)] \o <<"x", "y", "z">>

KeyRank(k) == CHOOSE i \in 1..Len(KeyOrder) : KeyOrder[i] = k

\* Object.keys(x).sort()
SortedKeys(x) == SortSeq(ObjectKeys(x), LAMBDA j, k : KeyRank(j) < KeyRank(k))

\* typeof x
TypeOf(x) ==
    CASE x.t = "undef" -> "undefined"
      [] x.t = "bool" -> "boolean"
      [] x.t \in {"num", "inf"} -> "number"
      [] x.t = "str" -> "string"
      [] OTHER -> "object"

\* a === b on primitives: same type and same value.  Two references to one
\* object are also ===; values carry no reference identity here, so objects
\* and arrays always take the structural comparison of deepEqual.
StrictEqualPrimitive(a, b) == a.t \notin {"arr", "obj"} /\ a = b

\* faulty variant: the keys of the two objects are compared in insertion order
RECURSIVE deepEqual_Unsorted(_, _)
deepEqual_Unsorted(a, b) ==
    IF StrictEqualPrimitive(a, b) THEN TRUE
    ELSE IF IsNullish(a) \/ IsNullish(b) THEN FALSE
    ELSE IF TypeOf(a) # TypeOf(b) THEN FALSE
    ELSE IF TypeOf(a) # "object" THEN FALSE
    ELSE IF IsArray(a) \/ IsArray(b)
         THEN /\ IsArray(a) /\ IsArray(b)
              /\ Len(a.v) = Len(b.v)
              /\ \A i \in 1..Len(a.v) : deepEqual_Unsorted(a.v[i], b.v[i])
    ELSE LET ak == ObjectKeys(a)
             bk == ObjectKeys(b)
         IN /\ Len(ak) = Len(bk)
            /\ \A i \in 1..Len(ak) :
                   ak[i] = bk[i] /\ deepEqual_Unsorted(Get(a, ak[i]), Get(b, ak[i]))

\* faulty variant: a null or missing value is never equal to anything
RECURSIVE deepEqual_NullNeverEqual(_, _)
deepEqual_NullNeverEqual(a, b) ==
    IF IsNullish(a) \/ IsNullish(b) THEN FALSE
    ELSE IF StrictEqualPrimitive(a, b) THEN TRUE
    ELSE IF TypeOf(a) # TypeOf(b) THEN FALSE
    ELSE IF TypeOf(a) # "object" THEN FALSE
    ELSE IF IsArray(a) \/ IsArray(b)
         THEN /\ IsArray(a) /\ IsArray(b)
              /\ Len(a.v) = Len(b.v)
              /\ \A i \in 1..Len(a.v) : deepEqual_NullNeverEqual(a.v[i], b.v[i])
    ELSE LET ak == SortedKeys(a)
             bk == SortedKeys(b)
         IN /\ Len(ak) = Len(bk)
            /\ \A i \in 1..Len(ak) :
                   ak[i] = bk[i] /\ deepEqual_NullNeverEqual(Get(a, ak[i]), Get(b, ak[i]))

RECURSIVE deepEqual(_, _)
deepEqual(a, b) ==
    IF StrictEqualPrimitive(a, b) THEN TRUE
    ELSE IF IsNullish(a) \/ IsNullish(b) THEN FALSE
    ELSE IF TypeOf(a) # TypeOf(b) THEN FALSE
    ELSE IF TypeOf(a) # "object" THEN FALSE
    ELSE IF IsArray(a) \/ IsArray(b)
         THEN /\ IsArray(a) /\ IsArray(b)
              /\ Len(a.v) = Len(b.v)
              /\ \A i \in 1..Len(a.v) : deepEqual(a.v[i], b.v[i])
    ELSE LET ak == SortedKeys(a)
             bk == SortedKeys(b)
         IN /\ Len(ak) = Len(bk)
            /\ \A i \in 1..Len(ak) :
                   ak[i] = bk[i] /\ deepEqual(Get(a, ak[i]), Get(b, ak[i]))

truncate(s, maxLen) ==
    IF Len(s) <= maxLen THEN s
    ELSE SubSeq(s, 1, maxLen) \o "\n... [truncated, len=" \o ToString(Len(s)) \o "]"

summarizeValue(x) ==
    IF IsNullish(x) THEN x
    ELSE IF x.t = "str" THEN Str(truncate(x.v, TruncateLen))
    ELSE IF TypeOf(x) \in {"number", "boolean"} THEN x
    ELSE IF IsArray(x)
         THEN IF Len(x.v) <= MaxArrayItems THEN x
              ELSE Obj(<<<<"_type", Str("array")>>, <<"count", Num(Len(x.v))>>>>)
    ELSE IF Len(ObjectKeys(x)) <= MaxObjectKeys THEN x
         ELSE Obj(<<<<"_type", Str("object")>>, <<"keys", Num(Len(ObjectKeys(x)))>>>>)

\* !x : the falsy values of JavaScript
IsFalsy(x) ==
    \/ IsNullish(x)
    \/ x = Bool(FALSE)
    \/ x = Num(0)
    \/ x = Str("")

\* new Set([...Object.keys(prev), ...Object.keys(next)]) in iteration order
KeyUnion(prev, next) ==
    LET pk == ObjectKeys(prev)
        nk == ObjectKeys(next)
    IN pk \o SelectSeq(nk, LAMBDA k : \A i \in 1..Len(pk) : pk[i] # k)

\* Object.prototype as the diff sees it: an object without enumerable keys
ObjectPrototype == Obj(<<>>)

\* x[k] on a snapshot: "__proto__" is an inherited accessor of every object,
\* so reading it from an object that has no member of that name returns the
\* object's prototype instead of undefined
ReadMember(x, k) ==
    IF k = "__proto__" /\ ~HasKey(x, k) THEN ObjectPrototype ELSE Get(x, k)

\* out[k] = {from, to} on the object literal out: a new member, except for
\* "__proto__", where the assignment runs the inherited setter, replaces the
\* prototype of out and adds no member
StoreMember(out, entry) ==
    IF entry.key = "__proto__" THEN out ELSE Append(out, entry)

\* the for loop of diffTopLevel over keys[i..]
RECURSIVE DiffKeys(_, _, _, _, _)
DiffKeys(prev, next, keys, i, out) ==
    IF i > Len(keys) THEN out
    ELSE LET a == ReadMember(prev, keys[i])
             b == ReadMember(next, keys[i])
         IN IF ~deepEqual(a, b)
            THEN DiffKeys(prev, next, keys, i + 1,
                          StoreMember(out, [key |-> keys[i], from |-> summarizeValue(a), to |-> summarizeValue(b)]))
            ELSE DiffKeys(prev, next, keys, i + 1, out)

diffTopLevel(prev, next) ==
    IF IsFalsy(prev) \/ IsFalsy(next) \/ TypeOf(prev) # "object" \/ TypeOf(next) # "object"
    THEN <<>>
    ELSE DiffKeys(prev, next, KeyUnion(prev, next), 1, <<>>)

----------------------------------------------------------------------------
(* Diff specification: diffTopLevel on pairs of snapshots, and again after  *)
(* the members of their objects have been reordered                         *)

\* the string of n characters "s"
RECURSIVE Chars(_)
Chars(n) ==
    IF n = 0 THEN ""
    ELSE LET h == Chars(n \div 2) IN IF n % 2 = 1 THEN h \o h \o "s" ELSE h \o h

NumArray(n) == Arr([i \in 1..n |-> Num(i)])

WideObject(n) == Obj([i \in 1..n |-> <<KeyName(i), Num(i)>>])

\* payloads of one snapshot field: primitives, strings and collections on
\* both sides of each summary threshold, nested collections
FieldValues ==
    { Null, Bool(TRUE), Bool(FALSE), Num(0), Num(1),
      Str(""), Str("s"), Str(Chars(TruncateLen)), Str(Chars(TruncateLen + 1)),
      Arr(<<>>), Arr(<<Num(1), Num(2)>>), Arr(<<Num(2), Num(1)>>),
      NumArray(MaxArrayItems), NumArray(MaxArrayItems + 1),
      Arr(<<Str(Chars(TruncateLen + 1)), Str(Chars(TruncateLen + 1))>>),
      Arr(<<NumArray(MaxArrayItems + 1), Obj(<<<<"y", Null>>, <<"x", Num(1)>>>>)>>),
      Obj(<<>>), Obj(<<<<"x", Null>>>>), Obj(<<<<"y", Null>>>>),
      Obj(<<<<"x", Num(1)>>, <<"y", Num(2)>>>>), Obj(<<<<"y", Num(2)>>, <<"x", Num(1)>>>>),
      Obj(<<<<"x", Num(1)>>, <<"y", Num(3)>>>>),
      Obj(<<<<"z", Obj(<<<<"x", Num(1)>>, <<"y", Arr(<<>>)>>>>)>>, <<"x", Num(1)>>>>),
      WideObject(MaxObjectKeys), WideObject(MaxObjectKeys + 1) }

Snapshots ==
    {Obj(<<>>), Null, Undefined, Str("s"), Arr(<<Num(1), Obj(<<>>)>>)}
    \cup {Obj(<<<<"a", x>>>>) : x \in FieldValues}
    \cup {Obj(<<<<"a", x>>, <<"b", Num(1)>>>>) : x \in FieldValues}
    \cup {Obj(<<<<"b", Num(2)>>, <<"a", x>>>>) : x \in FieldValues}
    \cup {Obj(<<<<"__proto__", x>>, <<"b", Num(1)>>>>) :
              x \in {Obj(<<>>), Obj(<<<<"x", Null>>>>), Obj(<<<<"x", Num(1)>>, <<"y", Num(2)>>>>)}}

\* reorderings of n members: every permutation of up to 3 members, the
\* reversal and the rotation by one of a larger object
Reorderings(n) ==
    IF n <= 3
    THEN {p \in [1..n -> 1..n] : \A i, j \in 1..n : p[i] = p[j] => i = j}
    ELSE {[i \in 1..n |-> i], [i \in 1..n |-> n + 1 - i], [i \in 1..n |-> (i % n) + 1]}

\* all sequences that take their i-th element from sets[i]
RECURSIVE SeqProduct(_)
SeqProduct(sets) ==
    IF sets = <<>> THEN {<<>>}
    ELSE {<<h>> \o r : h \in Head(sets), r \in SeqProduct(Tail(sets))}

\* the values obtained from x by permuting the keys of objects at any depth
RECURSIVE KeyPermutations(_)
KeyPermutations(x) ==
    IF x.t = "arr"
    THEN {Arr(e) : e \in SeqProduct([i \in 1..Len(x.v) |-> KeyPermutations(x.v[i])])}
    ELSE IF x.t = "obj"
    THEN {Obj([i \in 1..Len(x.v) |-> <<x.v[p[i]][1], e[p[i]]>>]) :
              p \in Reorderings(Len(x.v)),
              e \in SeqProduct([i \in 1..Len(x.v) |-> KeyPermutations(x.v[i][2])])}
    ELSE {x}

InitDiff ==
    /\ prevState \in Snapshots
    /\ nextState \in Snapshots
    /\ delta = <<>>
    /\ refDelta = <<>>
    /\ pcDiff = "first"
    /\ text = <<>> /\ parsed = <<>> /\ pcParse = "off"
    /\ events = <<>> /\ timing = [traceStartMs |-> Null, steps |-> <<>>]
    /\ pcTiming = "off"
    /\ ExplorerOff
    /\ ToolsOff

\* diffTopLevel(prevState, nextState) on the snapshots as given
DiffSnapshots ==
    /\ pcDiff = "first"
    /\ delta' = diffTopLevel(prevState, nextState)
    /\ refDelta' = delta'
    /\ pcDiff' = "done"
    /\ UNCHANGED <<prevState, nextState>>
    /\ UNCHANGED nonDiffVars

\* the producer emits the same snapshots with object keys in another order
PermuteKeys ==
    /\ pcDiff = "done"
    /\ prevState' \in KeyPermutations(prevState)
    /\ nextState' \in KeyPermutations(nextState)
    /\ <<prevState', nextState'>> # <<prevState, nextState>>
    /\ pcDiff' = "permuted"
    /\ UNCHANGED <<delta, refDelta>>
    /\ UNCHANGED nonDiffVars

\* diffTopLevel(prevState, nextState) on the reordered snapshots
DiffPermuted ==
    /\ pcDiff = "permuted"
    /\ delta' = diffTopLevel(prevState, nextState)
    /\ pcDiff' = "rediffed"
    /\ UNCHANGED <<prevState, nextState, refDelta>>
    /\ UNCHANGED nonDiffVars

NextDiff == DiffSnapshots \/ PermuteKeys \/ DiffPermuted

SpecDiff == InitDiff /\ [][NextDiff]_vars

----------------------------------------------------------------------------
(* Diff properties *)

\* C3: diffTopLevel(a, a) is the empty mapping for every JSON object a.
C3_DiffOfSelfEmpty ==
    (pcDiff \in {"done", "rediffed"} /\ prevState.t = "obj" /\ prevState = nextState)
        => delta = <<>>

\* a snapshot diffed against itself, holding a null member inside a nested object
C3_Witness ==
    /\ pcDiff = "done"
    /\ prevState = nextState
    /\ Get(prevState, "a").t = "obj"
    /\ Get(Get(prevState, "a"), "x") = Null
    /\ Get(prevState, "b") = Num(1)
    /\ delta = <<>>

\* a value up to the order of object members: objects as sets of members
RECURSIVE Canon(_)
Canon(x) ==
    IF x.t = "arr" THEN [t |-> "arr", v |-> [i \in 1..Len(x.v) |-> Canon(x.v[i])]]
    ELSE IF x.t = "obj" THEN [t |-> "obj", v |-> {<<x.v[i][1], Canon(x.v[i][2])>> : i \in 1..Len(x.v)}]
    ELSE x

\* the changed keys of a report with their from/to values
ReportSet(d) == {<<d[i].key, Canon(d[i].from), Canon(d[i].to)>> : i \in 1..Len(d)}

\* C4: permuting the keys of objects at any depth of prev and next leaves the
\* set of changed keys and their from/to values unchanged.
C4_KeyOrderIndependent ==
    pcDiff = "rediffed" => ReportSet(delta) = ReportSet(refDelta)

\* member "b" changed; member "a" holds equal objects whose keys now come in
\* different orders in the two snapshots
C4_Witness ==
    /\ pcDiff = "rediffed"
    /\ Len(delta) = 1 /\ delta[1].key = "b"
    /\ Get(prevState, "a").t = "obj"
    /\ Get(nextState, "a").t = "obj"
    /\ Get(prevState, "a") # Get(nextState, "a")

\* deep equality as the specification words it: primitives by value, arrays
\* element-wise in order, objects by equal key sets and equal values
RECURSIVE DeepEqualByDefinition(_, _)
DeepEqualByDefinition(a, b) ==
    IF a.t = "arr" /\ b.t = "arr"
    THEN /\ Len(a.v) = Len(b.v)
         /\ \A i \in 1..Len(a.v) : DeepEqualByDefinition(a.v[i], b.v[i])
    ELSE IF a.t = "obj" /\ b.t = "obj"
    THEN /\ {a.v[i][1] : i \in 1..Len(a.v)} = {b.v[i][1] : i \in 1..Len(b.v)}
         /\ \A i \in 1..Len(a.v) : DeepEqualByDefinition(a.v[i][2], Get(b, a.v[i][1]))
    ELSE a.t \notin {"arr", "obj"} /\ a = b

\* the top-level keys of either snapshot whose values are not deep-equal
ChangedKeys(prev, next) ==
    {k \in {prev.v[i][1] : i \in 1..Len(prev.v)} \cup {next.v[i][1] : i \in 1..Len(next.v)} :
        ~DeepEqualByDefinition(Get(prev, k), Get(next, k))}

\* the mapping d has exactly the keys of ChangedKeys, each once, with the
\* summarized values of the two snapshots
IsDiffOf(d, prev, next) ==
    /\ {d[i].key : i \in 1..Len(d)} = ChangedKeys(prev, next)
    /\ \A i, j \in 1..Len(d) : d[i].key = d[j].key => i = j
    /\ \A i \in 1..Len(d) :
           /\ d[i].from = summarizeValue(Get(prev, d[i].key))
           /\ d[i].to = summarizeValue(Get(next, d[i].key))

\* C19: for two JSON objects the keys of diffTopLevel(prev, next) are exactly
\* the keys of the union of their top-level keys whose values are not
\* deep-equal, and each maps to {from: summarize(prev[k]), to: summarize(next[k])}.
C19_ExactlyChangedKeys ==
    (pcDiff \in {"done", "rediffed"} /\ prevState.t = "obj" /\ nextState.t = "obj")
        => IsDiffOf(delta, prevState, nextState)

RECURSIVE SumSizes(_, _)
RECURSIVE ValueSize(_)

\* the size of a value: string characters, array elements and object keys,
\* nested ones included
ValueSize(x) ==
    IF x.t = "str" THEN Len(x.v)
    ELSE IF x.t = "arr" THEN Len(x.v) + SumSizes([i \in 1..Len(x.v) |-> x.v[i]], 1)
    ELSE IF x.t = "obj" THEN Len(x.v) + SumSizes([i \in 1..Len(x.v) |-> x.v[i][2]], 1)
    ELSE 1

SumSizes(xs, i) == IF i > Len(xs) THEN 0 ELSE ValueSize(xs[i]) + SumSizes(xs, i + 1)

\* twice the cut-off of strings: more than any string, collapsed array or
\* collapsed object that summarizeValue builds itself
DiffValueBound == 2 * TruncateLen

\* C5: every from/to value emitted by diffTopLevel is no larger than a fixed
\* bound, whatever the size of the snapshots.
C5_EmittedValuesBounded ==
    pcDiff \in {"done", "rediffed"}
        => \A i \in 1..Len(delta) :
               /\ ValueSize(delta[i].from) <= DiffValueBound
               /\ ValueSize(delta[i].to) <= DiffValueBound

----------------------------------------------------------------------------
(* Field resolver *)

Blanks == {" ", "\t", "\n", "\r"}

\* s.trim()
RECURSIVE StrTrim(_)
StrTrim(s) ==
    IF s = "" THEN s
    ELSE IF SubSeq(s, 1, 1) \in Blanks THEN StrTrim(SubSeq(s, 2, Len(s)))
    ELSE IF SubSeq(s, Len(s), Len(s)) \in Blanks THEN StrTrim(SubSeq(s, 1, Len(s) - 1))
    ELSE s

LowerLetters == "abcdefghijklmnopqrstuvwxyz"
UpperLetters == "ABCDEFGHIJKLMNOPQRSTUVWXYZ"

\* the letter tables of toUpperCase and toLowerCase
UpperOf == [c \in {SubSeq(LowerLetters, i, i) : i \in 1..26} |->
               LET i == CHOOSE j \in 1..26 : SubSeq(LowerLetters, j, j) = c IN SubSeq(UpperLetters, i, i)]
LowerOf == [c \in {SubSeq(UpperLetters, i, i) : i \in 1..26} |->
               LET i == CHOOSE j \in 1..26 : SubSeq(UpperLetters, j, j) = c IN SubSeq(LowerLetters, i, i)]

\* s with every character in the table's domain replaced, the others kept
RECURSIVE MapChars(_, _)
MapChars(s, table) ==
    IF s = "" THEN s
    ELSE LET c == SubSeq(s, 1, 1)
         IN (IF c \in DOMAIN table THEN table[c] ELSE c) \o MapChars(SubSeq(s, 2, Len(s)), table)

\* s.toUpperCase(), s.toLowerCase()
ToUpperCase(s) == MapChars(s, UpperOf)
ToLowerCase(s) == MapChars(s, LowerOf)

\* asNonEmptyString(v): the trimmed string, "" standing for the null result
\* (every caller maps null to "" or tests it for truthiness)
asNonEmptyString(x) == IF x.t = "str" THEN StrTrim(x.v) ELSE ""

\* ev?.step?.id ?? ev.step_id ?? ""
EventStepId(ev) ==
    IF asNonEmptyString(Get(Get(ev, "step"), "id")) # ""
    THEN asNonEmptyString(Get(Get(ev, "step"), "id"))
    ELSE asNonEmptyString(Get(ev, "step_id"))

\* the first element of xs that is not null, null when there is none
FirstNonNull(xs) ==
    IF \A i \in 1..Len(xs) : xs[i] = Null THEN Null
    ELSE xs[CHOOSE i \in 1..Len(xs) : xs[i] # Null /\ \A j \in 1..(i - 1) : xs[j] = Null]

----------------------------------------------------------------------------
(* Timing reconstructor.  Times are Num(ms) or Null. *)

Digits == "0123456789"

IsDigit(c) == \E i \in 1..Len(Digits) : SubSeq(Digits, i, i) = c

DigitValue(c) == (CHOOSE i \in 1..Len(Digits) : SubSeq(Digits, i, i) = c) - 1

\* Date.parse(s) for the timestamps "1970-01-01T00:00:SSZ" of the first
\* minute of the epoch; Null stands for NaN (any other string)
DateParse(s) ==
    IF /\ Len(s) = 20
       /\ SubSeq(s, 1, 17) = "1970-01-01T00:00:"
       /\ IsDigit(SubSeq(s, 18, 18)) /\ IsDigit(SubSeq(s, 19, 19))
       /\ SubSeq(s, 18, 18) \in {"0", "1", "2", "3", "4", "5"}
       /\ SubSeq(s, 20, 20) = "Z"
    THEN Num(1000 * (10 * DigitValue(SubSeq(s, 18, 18)) + DigitValue(SubSeq(s, 19, 19))))
    ELSE Null

\* v < 1e12 on integers (1e12 = 10^6 * 10^6)
BelowEpochMsThreshold(n) == n \div (10 ^ 6) < 10 ^ 6

parseTsMs(x) ==
    IF x.t = "num" THEN (IF BelowEpochMsThreshold(x.v) THEN Num(x.v * 1000) ELSE x)
    ELSE IF x.t # "str" THEN Null
    ELSE DateParse(x.v)

\* the first duration field that is a number
ExplicitDurationField(ev) ==
    LET c == <<Get(ev, "duration_ms"), Get(ev, "durationMs"),
               Get(Get(ev, "timing"), "duration_ms"), Get(Get(ev, "timing"), "durationMs")>>
    IN IF \A i \in 1..Len(c) : TypeOf(c[i]) # "number" THEN Null
       ELSE c[CHOOSE i \in 1..Len(c) : TypeOf(c[i]) = "number" /\ \A j \in 1..(i - 1) : TypeOf(c[j]) # "number"]

\* faulty variant: a negative duration is accepted
getEventDurationMs_AnySign(ev) ==
    LET dur == ExplicitDurationField(ev)
    IN IF dur.t = "num" THEN dur ELSE Null

getEventDurationMs(ev) ==
    LET dur == ExplicitDurationField(ev)
    IN IF dur.t = "num" /\ dur.v >= 0 THEN dur ELSE Null

getEventEndMs(ev) ==
    FirstNonNull(<<parseTsMs(Get(ev, "t_ms")), parseTsMs(Get(ev, "ts_ms")), parseTsMs(Get(ev, "ts_utc")),
                   parseTsMs(Get(ev, "ts")), parseTsMs(Get(ev, "timestamp")), parseTsMs(Get(ev, "time")),
                   parseTsMs(Get(ev, "finished_at")), parseTsMs(Get(ev, "end_ts_utc")),
                   parseTsMs(Get(ev, "end_ts"))>>)

getEventStartMs(ev) ==
    LET explicit == FirstNonNull(<<parseTsMs(Get(ev, "started_at")), parseTsMs(Get(ev, "start_ts_utc")),
                                   parseTsMs(Get(ev, "start_ts")), parseTsMs(Get(ev, "start_time")),
                                   parseTsMs(Get(Get(ev, "timing"), "started_at"))>>)
        end == getEventEndMs(ev)
        dur == getEventDurationMs(ev)
    IN IF explicit # Null THEN explicit
       ELSE IF end # Null /\ dur # Null THEN Num(end.v - dur.v)
       ELSE Null

\* Math.min(...xs) of a non-empty sequence of times
MinMs(xs) == Num(CHOOSE m \in {xs[i].v : i \in 1..Len(xs)} : \A i \in 1..Len(xs) : m <= xs[i].v)

NonNull(xs) == SelectSeq(xs, LAMBDA x : x # Null)

\* faulty variant: the first resolved time is taken for the earliest one
TraceStartMs_FirstResolved(evs) ==
    LET starts == NonNull([i \in 1..Len(evs) |-> getEventStartMs(evs[i])])
        ends == NonNull([i \in 1..Len(evs) |-> getEventEndMs(evs[i])])
    IN IF Len(starts) > 0 THEN starts[1]
       ELSE IF Len(ends) > 0 THEN ends[1]
       ELSE Null

TraceStartMs(evs) ==
    LET starts == NonNull([i \in 1..Len(evs) |-> getEventStartMs(evs[i])])
        ends == NonNull([i \in 1..Len(evs) |-> getEventEndMs(evs[i])])
    IN IF Len(starts) > 0 THEN MinMs(starts)
       ELSE IF Len(ends) > 0 THEN MinMs(ends)
       ELSE Null

\* the consumeQueue loop over evs[i..]: q maps a consumer step id to the
\* queued end times of its CONSUME records
RECURSIVE BuildConsumeQueue(_, _, _)
BuildConsumeQueue(evs, i, q) ==
    IF i > Len(evs) THEN q
    ELSE LET kind == ToUpperCase(asNonEmptyString(Get(evs[i], "event_type")))
             sid == asNonEmptyString(Get(evs[i], "consumer_step_id"))
             end == getEventEndMs(evs[i])
         IN IF kind # "CONSUME" \/ sid = "" \/ end = Null
            THEN BuildConsumeQueue(evs, i + 1, q)
            ELSE IF sid \in DOMAIN q
                 THEN BuildConsumeQueue(evs, i + 1, [q EXCEPT ![sid] = Append(@, end)])
                 ELSE BuildConsumeQueue(evs, i + 1, [k \in DOMAIN q \cup {sid} |-> IF k = sid THEN <<end>> ELSE q[k]])

\* faulty variant: the first queued time is taken whatever the step's end time
FindConsumeIndex_IgnoresEnd(queue, endMs) ==
    IF Len(queue) = 0 THEN 0 ELSE 1

\* q.findIndex((v) => v <= endMs), 1-based, 0 when nothing is found
FindConsumeIndex(queue, endMs) ==
    IF \A i \in 1..Len(queue) : queue[i].v > endMs.v THEN 0
    ELSE CHOOSE i \in 1..Len(queue) : queue[i].v <= endMs.v /\ \A j \in 1..(i - 1) : queue[j].v > endMs.v

\* q.splice(idx, 1)
RemoveAt(queue, idx) == SubSeq(queue, 1, idx - 1) \o SubSeq(queue, idx + 1, Len(queue))

\* the index of the consume record that the step takes, 0 for none
ConsumeHit(ev, q) ==
    LET stepId == EventStepId(ev)
        endMs == getEventEndMs(ev)
    IN IF stepId # "" /\ stepId \in DOMAIN q /\ Len(q[stepId]) > 0 /\ endMs # Null
       THEN FindConsumeIndex(q[stepId], endMs)
       ELSE 0

\* faulty variant: the computed difference is preferred to the explicit duration
StepDuration_ComputedFirst(explicitDuration, startMs, endMs) ==
    IF startMs # Null /\ endMs # Null /\ endMs.v >= startMs.v THEN Num(endMs.v - startMs.v)
    ELSE explicitDuration

\* durationMs of one step
StepDuration(explicitDuration, startMs, endMs) ==
    IF explicitDuration # Null THEN explicitDuration
    ELSE IF startMs # Null /\ endMs # Null /\ endMs.v >= startMs.v THEN Num(endMs.v - startMs.v)
    ELSE Null

\* faulty variant: the duration is computed from the event's own start time only
StepTimingOf_OwnStartOnly(ev, q, prevEndMs, traceStartMs) ==
    LET endMs == getEventEndMs(ev)
        hit == ConsumeHit(ev, q)
        picked == IF hit > 0 THEN q[EventStepId(ev)][hit] ELSE getEventStartMs(ev)
        startMs == IF picked = Null /\ prevEndMs # Null THEN prevEndMs ELSE picked
    IN [startMs |-> startMs,
        endMs |-> endMs,
        durationMs |-> StepDuration(getEventDurationMs(ev), getEventStartMs(ev), endMs),
        elapsedMs |-> IF traceStartMs # Null /\ endMs # Null THEN Num(endMs.v - traceStartMs.v) ELSE Null]

\* the StepTiming that the events.map callback returns for ev
StepTimingOf(ev, q, prevEndMs, traceStartMs) ==
    LET endMs == getEventEndMs(ev)
        hit == ConsumeHit(ev, q)
        picked == IF hit > 0 THEN q[EventStepId(ev)][hit] ELSE getEventStartMs(ev)
        startMs == IF picked = Null /\ prevEndMs # Null THEN prevEndMs ELSE picked
    IN [startMs |-> startMs,
        endMs |-> endMs,
        durationMs |-> StepDuration(getEventDurationMs(ev), startMs, endMs),
        elapsedMs |-> IF traceStartMs # Null /\ endMs # Null THEN Num(endMs.v - traceStartMs.v) ELSE Null]

\* the events.map pass over evs[i..] with its running consumeQueue and prevEndMs
RECURSIVE TimingPass(_, _, _, _, _, _)
TimingPass(evs, i, q, prevEndMs, traceStartMs, steps) ==
    IF i > Len(evs) THEN steps
    ELSE LET ev == evs[i]
             hit == ConsumeHit(ev, q)
             endMs == getEventEndMs(ev)
             q2 == IF hit > 0 THEN [q EXCEPT ![EventStepId(ev)] = RemoveAt(@, hit)] ELSE q
         IN TimingPass(evs, i + 1, q2, IF endMs # Null THEN endMs ELSE prevEndMs, traceStartMs,
                       Append(steps, StepTimingOf(ev, q, prevEndMs, traceStartMs)))

\* the result of buildTraceTiming for the trace start traceStartMs
TimingFrom(evs, traceStartMs) ==
    [traceStartMs |-> traceStartMs,
     steps |-> TimingPass(evs, 1, BuildConsumeQueue(evs, 1, <<>>), Null, traceStartMs, <<>>)]

buildTraceTiming(evs) == TimingFrom(evs, TraceStartMs(evs))

----------------------------------------------------------------------------
(* Timing specification: a trace is written event by event, then timed *)

MaxEvents == 2

\* who the record is: a step "A" (id given with blanks around it), a record
\* without step id, or a CONSUME record for consumer step "A"
IdentityChoices ==
    { <<>>,
      <<<<"step", Obj(<<<<"id", Str(" A ")>>>>)>>>> }

\* end time: none, 1 s as epoch seconds, or 3 s as a date string in a later
\* candidate field behind an unparseable earlier one
EndChoices ==
    { <<>>,
      <<<<"ts_ms", Num(1)>>>>,
      <<<<"t_ms", Str("soon")>>, <<"ts", Str("1970-01-01T00:00:03Z")>>>> }

StartChoices ==
    { <<>>,
      <<<<"started_at", Num(2)>>>> }

DurationChoices ==
    { <<>>,
      <<<<"duration_ms", Num(500)>>>>,
      <<<<"duration_ms", Num(-5)>>, <<"durationMs", Num(500)>>>>,
      <<<<"duration_ms", Infinity>>, <<"timing", Obj(<<<<"durationMs", Num(500)>>>>)>>>>,
      <<<<"duration_ms", Str("500")>>, <<"timing", Obj(<<<<"duration_ms", Num(700)>>>>)>>>> }

ConsumeChoices ==
    { Obj(<<<<"event_type", Str("consume")>>, <<"consumer_step_id", Str("A")>>>> \o e) : e \in EndChoices }

EventChoices ==
    { Obj(id \o e \o st \o dur) :
          id \in IdentityChoices, e \in EndChoices, st \in StartChoices, dur \in DurationChoices }
    \cup ConsumeChoices

NoTiming == [traceStartMs |-> Null, steps |-> <<>>]

InitTiming ==
    /\ events = <<>>
    /\ timing = NoTiming
    /\ pcTiming = "edit"
    /\ text = <<>> /\ parsed = <<>> /\ pcParse = "off"
    /\ prevState = Null /\ nextState = Null
    /\ delta = <<>> /\ refDelta = <<>>
    /\ pcDiff = "off"
    /\ ExplorerOff
    /\ ToolsOff

\* the pipeline appends one more record to the trace
AppendEvent ==
    /\ pcTiming = "edit"
    /\ Len(events) < MaxEvents
    /\ \E ev \in EventChoices : events' = Append(events, ev)
    /\ UNCHANGED <<timing, pcTiming>>
    /\ UNCHANGED nonTimingVars

BuildTraceTiming ==
    /\ pcTiming = "edit"
    /\ timing' = buildTraceTiming(events)
    /\ pcTiming' = "done"
    /\ UNCHANGED events
    /\ UNCHANGED nonTimingVars

NextTiming == AppendEvent \/ BuildTraceTiming

SpecTiming == InitTiming /\ [][NextTiming]_vars

----------------------------------------------------------------------------
(* Timing properties *)

DurationFields(ev) ==
    <<Get(ev, "duration_ms"), Get(ev, "durationMs"),
      Get(Get(ev, "timing"), "duration_ms"), Get(Get(ev, "timing"), "durationMs")>>

\* C6 (as claimed): an event that carries a numeric non-negative duration in
\* any of duration_ms, durationMs, timing.duration_ms, timing.durationMs gets
\* that value as its durationMs.
C6_Original ==
    pcTiming = "done"
        => \A i \in 1..Len(events) : \A f \in 1..4 :
               LET d == DurationFields(events[i])[f]
               IN (d.t = "num" /\ d.v >= 0) => timing.steps[i].durationMs = d

\* C6 (amended): when the first duration field that holds a number, in the
\* order duration_ms, durationMs, timing.duration_ms, timing.durationMs, is
\* finite and non-negative, the resolved durationMs equals that value,
\* whatever start and end times are resolved for the event.
C6_ExplicitDurationWins ==
    pcTiming = "done"
        => \A i \in 1..Len(events) :
               LET c == DurationFields(events[i])
                   numeric == {f \in 1..4 : TypeOf(c[f]) = "number"}
               IN \A f \in numeric :
                      ((\A g \in numeric : f <= g) /\ c[f].t = "num" /\ c[f].v >= 0)
                          => timing.steps[i].durationMs = c[f]

\* an event with explicit duration 500 whose resolved start and end lie
\* 1000 ms apart
C6_Witness ==
    /\ pcTiming = "done"
    /\ \E i \in 1..Len(events) :
           /\ Get(events[i], "duration_ms") = Num(500)
           /\ timing.steps[i].startMs = Num(2000)
           /\ timing.steps[i].endMs = Num(3000)
           /\ timing.steps[i].durationMs = Num(500)

\* the event carries a finite non-negative number in one of its four
\* duration fields
CarriesValidDuration(ev) ==
    \E f \in 1..4 : DurationFields(ev)[f].t = "num" /\ DurationFields(ev)[f].v >= 0

\* C28: every non-null durationMs of buildTraceTiming is a finite number
\* >= 0: it is one of the event's non-negative explicit durations, never a
\* negative one, or it is endMs - startMs of a step whose endMs >= startMs;
\* a step without valid explicit duration whose endMs < startMs has none.
C28_DurationNonNegative ==
    pcTiming = "done"
        => \A i \in 1..Len(timing.steps) :
               LET t == timing.steps[i]
               IN /\ t.durationMs # Null
                      => /\ t.durationMs.t = "num" /\ t.durationMs.v >= 0
                         /\ \/ \E f \in 1..4 : DurationFields(events[i])[f] = t.durationMs
                            \/ /\ t.startMs # Null /\ t.endMs # Null
                               /\ t.endMs.v >= t.startMs.v
                               /\ t.durationMs.v = t.endMs.v - t.startMs.v
                  /\ (~CarriesValidDuration(events[i]) /\ t.startMs # Null /\ t.endMs # Null
                          /\ t.endMs.v < t.startMs.v)
                         => t.durationMs = Null

\* a step whose first duration field holds -5, that starts at 2000 ms and
\* ends at 1000 ms, has no duration; one with times 2000 and 3000 has 1000 ms
C28_Witness ==
    /\ pcTiming = "done"
    /\ Len(events) = 2
    /\ Get(events[1], "duration_ms") = Num(-5)
    /\ timing.steps[1].startMs = Num(2000) /\ timing.steps[1].endMs = Num(1000)
    /\ timing.steps[1].durationMs = Null
    /\ Get(events[2], "duration_ms") = Num(-5)
    /\ timing.steps[2].startMs = Num(2000) /\ timing.steps[2].endMs = Num(3000)
    /\ timing.steps[2].durationMs = Num(1000)

\* C7 (as claimed): a step with non-null startMs <= endMs has
\* durationMs = endMs - startMs.
C7_Original ==
    pcTiming = "done"
        => \A i \in 1..Len(timing.steps) :
               LET t == timing.steps[i]
               IN (t.startMs # Null /\ t.endMs # Null /\ t.endMs.v >= t.startMs.v)
                      => t.durationMs = Num(t.endMs.v - t.startMs.v)

\* C7 (amended): a step whose event resolves no explicit duration and whose
\* startMs and endMs are non-null with endMs >= startMs has
\* durationMs = endMs - startMs.
C7_ComputedDuration ==
    pcTiming = "done"
        => \A i \in 1..Len(timing.steps) :
               LET t == timing.steps[i]
               IN (/\ getEventDurationMs(events[i]) = Null
                   /\ t.startMs # Null /\ t.endMs # Null /\ t.endMs.v >= t.startMs.v)
                      => t.durationMs = Num(t.endMs.v - t.startMs.v)

\* a second step without start and duration fields, chained to the end of
\* the first: start 1000, end 3000, duration 2000
C7_Witness ==
    /\ pcTiming = "done"
    /\ Len(events) = 2
    /\ getEventStartMs(events[2]) = Null
    /\ getEventDurationMs(events[2]) = Null
    /\ timing.steps[2] = [startMs |-> Num(1000), endMs |-> Num(3000),
                          durationMs |-> Num(2000), elapsedMs |-> Num(2000)]

\* C8 (as claimed): traceStartMs is at most every non-null startMs and endMs
\* of the steps, and every non-null elapsedMs is >= 0.
C8_Original ==
    pcTiming = "done"
        => \A i \in 1..Len(timing.steps) :
               LET t == timing.steps[i]
               IN /\ t.startMs # Null => (timing.traceStartMs # Null /\ timing.traceStartMs.v <= t.startMs.v)
                  /\ t.endMs # Null => (timing.traceStartMs # Null /\ timing.traceStartMs.v <= t.endMs.v)
                  /\ t.elapsedMs # Null => t.elapsedMs.v >= 0

OwnStarts == {getEventStartMs(events[i]).v : i \in {j \in 1..Len(events) : getEventStartMs(events[j]) # Null}}
OwnEnds == {getEventEndMs(events[i]).v : i \in {j \in 1..Len(events) : getEventEndMs(events[j]) # Null}}

\* C8 (amended): traceStartMs is the minimum of the start times the events
\* resolve themselves (explicit start fields, or end minus explicit duration)
\* when there is one, otherwise the minimum of the resolved end times; when
\* no event resolves a start time of its own, traceStartMs is at most every
\* non-null startMs and endMs of the steps and every non-null elapsedMs is >= 0.
C8_TraceStart ==
    pcTiming = "done"
        => /\ OwnStarts # {}
                => /\ timing.traceStartMs # Null
                   /\ timing.traceStartMs.v \in OwnStarts
                   /\ \A m \in OwnStarts : timing.traceStartMs.v <= m
           /\ (OwnStarts = {} /\ OwnEnds # {})
                => /\ timing.traceStartMs # Null
                   /\ timing.traceStartMs.v \in OwnEnds
                   /\ \A m \in OwnEnds : timing.traceStartMs.v <= m
           /\ (OwnStarts = {} /\ OwnEnds = {}) => timing.traceStartMs = Null
           /\ OwnStarts = {}
                => \A i \in 1..Len(timing.steps) :
                       LET t == timing.steps[i]
                       IN /\ t.startMs # Null => timing.traceStartMs.v <= t.startMs.v
                          /\ t.endMs # Null => timing.traceStartMs.v <= t.endMs.v
                          /\ t.elapsedMs # Null => t.elapsedMs.v >= 0

\* two events with end times only, the later one first: the trace starts at
\* the second event's end
C8_Witness ==
    /\ pcTiming = "done"
    /\ Len(events) = 2
    /\ OwnStarts = {}
    /\ timing.steps[1].endMs = Num(3000)
    /\ timing.steps[2].endMs = Num(1000)
    /\ timing.steps[2].startMs = Num(3000)
    /\ timing.traceStartMs = Num(1000)
    /\ timing.steps[1].elapsedMs = Num(2000)

----------------------------------------------------------------------------
(* Anomaly detector *)

MinSamples == 6
MinAllowedMs == 150

getActionClass(ev) ==
    LET first == asNonEmptyString(Get(Get(ev, "action"), "class"))
        raw == IF first # "" THEN first ELSE asNonEmptyString(Get(ev, "action_name"))
    IN IF ToLowerCase(raw) = "unknown" THEN "" ELSE raw

\* the loop of buildDurationStatsFromFolder over the events evs[i..] read
\* from the folder's files; st.perClass maps a lowercased class to its samples
RECURSIVE AccumulateDurations(_, _, _)
AccumulateDurations(evs, i, st) ==
    IF i > Len(evs) THEN st
    ELSE LET cls == ToLowerCase(getActionClass(evs[i]))
             dur == getEventDurationMs(evs[i])
         IN IF dur = Null THEN AccumulateDurations(evs, i + 1, st)
            ELSE AccumulateDurations(evs, i + 1,
                     [perClass |-> [k \in DOMAIN st.perClass \cup {cls} |->
                                       IF k \in DOMAIN st.perClass
                                       THEN (IF k = cls THEN Append(st.perClass[k], dur.v) ELSE st.perClass[k])
                                       ELSE <<dur.v>>],
                      global |-> Append(st.global, dur.v)])

buildDurationStatsFromFolder(evs) == AccumulateDurations(evs, 1, [perClass |-> <<>>, global |-> <<>>])

\* /\.(json|jsonl)$/i.test(name)
IsTraceFileName(name) ==
    LET low == ToLowerCase(name)
        n == Len(low)
    IN \/ n >= 5 /\ SubSeq(low, n - 4, n) = ".json"
       \/ n >= 6 /\ SubSeq(low, n - 5, n) = ".jsonl"

\* the events buildDurationStatsFromFolder(doc.uri) reads: none for a
\* document that is no file; otherwise those of every .json/.jsonl file of
\* the document's folder, the saved document's own file among them (the
\* pools are sorted before use, so its place in the listing does not matter)
FolderEvents(uri, src, others) ==
    IF uri.scheme # "file" THEN <<>>
    ELSE IF IsTraceFileName(uri.name) THEN others \o src
    ELSE others

\* percentile(values, p) for p = pNum / pDen: the element of the sorted copy
\* at index floor((length - 1) * p), clamped to the array
percentile(values, pNum, pDen) ==
    IF Len(values) = 0 THEN 0
    ELSE LET sorted == SortSeq(values, LAMBDA a, b : a < b)
             raw == ((Len(sorted) - 1) * pNum) \div pDen
             idx == IF raw < 0 THEN 0 ELSE IF raw > Len(sorted) - 1 THEN Len(sorted) - 1 ELSE raw
         IN sorted[idx + 1]

\* stats.perClass.get(cls.toLowerCase()) ?? []
ClassSamples(cls, st) ==
    IF ToLowerCase(cls) \in DOMAIN st.perClass THEN st.perClass[ToLowerCase(cls)] ELSE <<>>

\* faulty variant: a threshold is computed from however few samples there are
allowedDurationMs_AnySampleCount(cls, st) ==
    LET classVals == ClassSamples(cls, st)
        source == IF Len(classVals) >= MinSamples THEN classVals ELSE st.global
        med == percentile(source, 1, 2)
        p90 == percentile(source, 9, 10)
        cands == {100 * MinAllowedMs, 220 * med, 125 * p90}
    IN Num(CHOOSE m \in cands : \A c \in cands : c <= m)

\* allowedDurationMs(cls, stats) in hundredths of a millisecond
\* (150, 2.2 * median, 1.25 * p90 scaled by 100), Null when no threshold
allowedDurationMs(cls, st) ==
    LET classVals == ClassSamples(cls, st)
        source == IF Len(classVals) >= MinSamples THEN classVals ELSE st.global
        med == percentile(source, 1, 2)
        p90 == percentile(source, 9, 10)
        cands == {100 * MinAllowedMs, 220 * med, 125 * p90}
    IN IF Len(source) < MinSamples THEN Null
       ELSE Num(CHOOSE m \in cands : \A c \in cands : c <= m)

\* faulty variant: a duration equal to the allowed value counts as slow
isStepSlow_AtLeast(durationMs, cls, st) ==
    IF durationMs = Null THEN FALSE
    ELSE IF allowedDurationMs(cls, st) = Null THEN FALSE
    ELSE 100 * durationMs.v >= allowedDurationMs(cls, st).v

isStepSlow(durationMs, cls, st) ==
    IF durationMs = Null THEN FALSE
    ELSE IF allowedDurationMs(cls, st) = Null THEN FALSE
    ELSE 100 * durationMs.v > allowedDurationMs(cls, st).v

\* formatTimingForStep: the parts of the timing text, <<>> for null.  A part
\* is the elapsed time ("t=...") or the duration ("+..."), the latter with
\* the "[SLOW] " prefix when slow is TRUE; times are kept in ms.
formatTimingForStep(tm, index, cls, st) ==
    IF index + 1 > Len(tm.steps) THEN <<>>
    ELSE LET t == tm.steps[index + 1]
             elapsed == IF t.elapsedMs # Null /\ t.elapsedMs.v >= 0
                        THEN <<[part |-> "t", ms |-> t.elapsedMs.v, slow |-> FALSE]>>
                        ELSE <<>>
             dur == IF t.durationMs # Null /\ t.durationMs.v >= 0
                    THEN <<[part |-> "+", ms |-> t.durationMs.v, slow |-> isStepSlow(t.durationMs, cls, st)]>>
                    ELSE <<>>
         IN elapsed \o dur

----------------------------------------------------------------------------
(* Trace explorer *)

isErrorEvent(ev) ==
    \/ ToUpperCase(asNonEmptyString(Get(ev, "level"))) = "ERROR"
    \/ ~IsNullish(Get(ev, "exception"))
    \/ ~IsNullish(Get(ev, "error"))
    \/ Get(ev, "has_error") = Bool(TRUE)
    \/ Get(ev, "success") = Bool(FALSE)
    \/ asNonEmptyString(Get(ev, "exception_message")) # ""
    \/ asNonEmptyString(Get(ev, "exceptionMessage")) # ""

isUnknownStep(stepId, cls) ==
    LET sid == ToLowerCase(StrTrim(stepId))
        c == ToLowerCase(StrTrim(cls))
    IN (sid = "" \/ sid = "step" \/ sid = "unknown") /\ (c = "" \/ c = "unknown")

isStructuralStepEvent(ev) ==
    LET stepId == EventStepId(ev)
        cls == asNonEmptyString(Get(Get(ev, "action"), "class"))
        normalized == ToLowerCase(StrTrim(cls))
    IN /\ stepId # "" /\ cls # ""
       /\ normalized # "unknown" /\ normalized # "action"

\* faulty variant: the strict filter is used whatever it keeps
normalizeEventsForPuml_AlwaysStrict(evs) ==
    SelectSeq([i \in 1..Len(evs) |-> i], LAMBDA i : isStructuralStepEvent(evs[i]))

\* normalizeEventsForPuml: the 1-based source positions of the events kept
normalizeEventsForPuml(evs) ==
    LET positions == [i \in 1..Len(evs) |-> i]
        strict == SelectSeq(positions, LAMBDA i : isStructuralStepEvent(evs[i]))
    IN IF Len(strict) >= 3 THEN strict
       ELSE SelectSeq(positions, LAMBDA i :
                /\ ToLowerCase(StrTrim(getActionClass(evs[i]))) # "action"
                /\ ~isUnknownStep(EventStepId(evs[i]), getActionClass(evs[i])))

\* Object.keys(ev) of an event that is not an object lists the indices of
\* an array or of a string's characters, and nothing for other primitives
stripStateFields(ev) ==
    IF ev.t = "obj"
    THEN Obj(SelectSeq(ev.v, LAMBDA kv :
            kv[1] \notin {"state_before", "state_after", "stateBefore", "stateAfter",
                          "pipeline_state_before", "pipeline_state_after",
                          "pipelineStateBefore", "pipelineStateAfter", "state"}))
    ELSE IF ev.t = "arr" THEN Obj([i \in 1..Len(ev.v) |-> <<ToString(i - 1), ev.v[i]>>])
    ELSE IF ev.t = "str" THEN Obj([i \in 1..Len(ev.v) |-> <<ToString(i - 1), Str(SubSeq(ev.v, i, i))>>])
    ELSE Obj(<<>>)

\* the small info line: node_texts= or expanded=, then edges=
ExtraInfo(ev) ==
    LET outObj == Get(ev, "out")
        first == IF TypeOf(Get(outObj, "expanded_count")) = "number"
                 THEN <<<<"expanded", Get(outObj, "expanded_count")>>>>
                 ELSE IF TypeOf(Get(outObj, "node_texts_count")) = "number"
                 THEN <<<<"node_texts", Get(outObj, "node_texts_count")>>>>
                 ELSE <<>>
    IN IF ~IsObjectLike(outObj) THEN <<>>
       ELSE IF TypeOf(Get(outObj, "edges_count")) = "number"
       THEN first \o <<<<"edges", Get(outObj, "edges_count")>>>>
       ELSE first

FixedItem(kind) ==
    [kind |-> kind, title |-> <<>>, stepIndex |-> -1, isCallModelAction |-> FALSE,
     desc |-> "", timed |-> <<>>, extra |-> <<>>, tooltip |-> Null, icon |-> ""]

\* the icon of a step row, slow being isStepSlow of its duration
StepIcon(err, slow) == IF err THEN "error" ELSE IF ~err /\ slow THEN "clock" ELSE "check"

\* the for loop of getChildren over the normalized events at kept[i..]
RECURSIVE StepItems(_, _, _, _, _, _, _)
StepItems(src, kept, i, visibleIndex, tm, st, out) ==
    IF i > Len(kept) THEN out
    ELSE LET ev == src[kept[i]]
             stepId == EventStepId(ev)
             cls == getActionClass(ev)
             err == isErrorEvent(ev)
             stepTiming == tm.steps[i]
         IN IF isUnknownStep(stepId, cls) THEN StepItems(src, kept, i + 1, visibleIndex, tm, st, out)
            ELSE StepItems(src, kept, i + 1, visibleIndex + 1, tm, st,
                     Append(out,
                         [kind |-> "step",
                          title |-> <<visibleIndex + 1, IF stepId # "" THEN stepId ELSE "step", cls>>,
                          stepIndex |-> kept[i] - 1,
                          isCallModelAction |-> ToLowerCase(cls) = "callmodelaction",
                          desc |-> IF err THEN "ERROR" ELSE "ok",
                          timed |-> formatTimingForStep(tm, i - 1, cls, st),
                          extra |-> ExtraInfo(ev),
                          tooltip |-> stripStateFields(ev),
                          icon |-> StepIcon(err, isStepSlow(stepTiming.durationMs, cls, st))]))

\* getChildren() at the root for the active document's events src and the
\* events folder read from the trace files of its folder
RootItems(src, folder) ==
    LET kept == normalizeEventsForPuml(src)
        evs == [i \in 1..Len(kept) |-> src[kept[i]]]
        fixed == <<FixedItem("openPuml"), FixedItem("openLatest")>>
    IN IF Len(kept) = 0 THEN fixed
       ELSE StepItems(src, kept, 1, 0, buildTraceTiming(evs), buildDurationStatsFromFolder(folder), fixed)

\* getChildren(element)
ChildItems(element) ==
    IF element.kind = "step" /\ element.isCallModelAction /\ element.stepIndex >= 0
    THEN <<[FixedItem("callModelOpenMd") EXCEPT !.stepIndex = element.stepIndex],
           [FixedItem("callModelCopy") EXCEPT !.stepIndex = element.stepIndex]>>
    ELSE <<>>

----------------------------------------------------------------------------
(* Explorer specification: the trace files of the folder are read event by  *)
(* event, then the explorer lists the steps of the active document          *)

MaxSiblingEvents == 6

FetchStep == <<<<"step", Obj(<<<<"id", Str("A")>>>>)>>, <<"action", Obj(<<<<"class", Str("Fetch")>>>>)>>>>

\* events of the other trace files: a Fetch duration, a Rank duration and a
\* record without duration
SiblingChoices ==
    { Obj(FetchStep \o <<<<"duration_ms", Num(100)>>>>),
      Obj(<<<<"step_id", Str("R")>>, <<"action_name", Str("Rank")>>, <<"durationMs", Num(400)>>>>),
      Obj(FetchStep) }

ErrorChoices ==
    { <<>>, <<<<"level", Str("error")>>>> }

ActiveDurationChoices ==
    { <<>>, <<<<"duration_ms", Num(100)>>>>, <<<<"duration_ms", Num(5000)>>>> }

ActiveSteps ==
    { Obj(FetchStep \o <<<<"ts_ms", Num(1)>>>> \o e \o dur) : e \in ErrorChoices, dur \in ActiveDurationChoices }
    \cup { Obj(<<<<"step_id", Str("M")>>, <<"action_name", Str("CallModelAction")>>,
                 <<"success", Bool(FALSE)>>, <<"duration_ms", Num(5000)>>,
                 <<"out", Obj(<<<<"node_texts_count", Num(3)>>, <<"edges_count", Num(2)>>>>)>>,
                 <<"state_after", Obj(<<<<"a", Num(1)>>>>)>>>>) }

\* a record without step id and action class, which the explorer skips
HelperRecord == Obj(<<<<"message", Str("note")>>, <<"ts_ms", Num(1)>>>>)

ActiveTraces ==
    {<<>>} \cup {<<ev>> : ev \in ActiveSteps}
    \cup {<<HelperRecord, ev>> : ev \in {e \in ActiveSteps : Get(e, "duration_ms") = Num(5000)}}

\* the active document: saved trace files, a saved file with another
\* extension, and an editor buffer that was never saved
DocUriChoices ==
    { [scheme |-> "file", name |-> "run.jsonl"],
      [scheme |-> "file", name |-> "RUN.JSON"],
      [scheme |-> "file", name |-> "run.log"],
      [scheme |-> "untitled", name |-> "Untitled-1"] }

InitExplorer ==
    /\ siblings = <<>>
    /\ docUri = [scheme |-> "", name |-> ""]
    /\ sourceEvents = <<>>
    /\ stats = [perClass |-> <<>>, global |-> <<>>]
    /\ items = <<>>
    /\ children = <<>>
    /\ pcExplorer = "scan"
    /\ text = <<>> /\ parsed = <<>> /\ pcParse = "off"
    /\ prevState = Null /\ nextState = Null
    /\ delta = <<>> /\ refDelta = <<>>
    /\ pcDiff = "off"
    /\ events = <<>> /\ timing = NoTiming
    /\ pcTiming = "off"
    /\ ToolsOff

\* one more event is found in the trace files of the folder
ScanSiblingEvent ==
    /\ pcExplorer = "scan"
    /\ Len(siblings) < MaxSiblingEvents
    /\ \E ev \in SiblingChoices : siblings' = Append(siblings, ev)
    /\ UNCHANGED <<docUri, sourceEvents, stats, items, children, pcExplorer>>
    /\ UNCHANGED nonExplorerVars

\* TraceExplorerProvider.getChildren() on the active document
GetChildren ==
    /\ pcExplorer = "scan"
    /\ \E src \in ActiveTraces, uri \in DocUriChoices :
           /\ sourceEvents' = src
           /\ docUri' = uri
           /\ items' = RootItems(src, FolderEvents(uri, src, siblings))
           /\ stats' = buildDurationStatsFromFolder(FolderEvents(uri, src, siblings))
    /\ pcExplorer' = "done"
    /\ UNCHANGED <<siblings, children>>
    /\ UNCHANGED nonExplorerVars

\* TraceExplorerProvider.getChildren(element) on a listed row
GetChildrenOfItem ==
    /\ pcExplorer = "done"
    /\ \E i \in 1..Len(items) : children' = ChildItems(items[i])
    /\ pcExplorer' = "expanded"
    /\ UNCHANGED <<siblings, docUri, sourceEvents, stats, items>>
    /\ UNCHANGED nonExplorerVars

NextExplorer == ScanSiblingEvent \/ GetChildren \/ GetChildrenOfItem

SpecExplorer == InitExplorer /\ [][NextExplorer]_vars

----------------------------------------------------------------------------
(* Anomaly detector and explorer properties *)

ProbeClasses == {"Fetch", "fetch", "Rank", "CallModelAction", ""}
ProbeDurations == {0, 100, 151, 5000, 1000000}

\* C9: with fewer than 6 samples in the class's pool and in the global pool,
\* isStepSlow is false for every duration and every action class.
C9_NoThresholdNoSlow ==
    pcExplorer \in {"done", "expanded"}
        => \A cls \in ProbeClasses : \A d \in ProbeDurations :
               (Len(ClassSamples(cls, stats)) < MinSamples /\ Len(stats.global) < MinSamples)
                   => ~isStepSlow(Num(d), cls, stats)

\* five samples of 100 ms in the folder and a 5000 ms step that is listed
\* without any slow indication
C9_Witness ==
    /\ pcExplorer = "done"
    /\ Len(stats.global) = MinSamples - 1
    /\ \E i \in 1..Len(items) :
           /\ items[i].kind = "step"
           /\ items[i].desc = "ok"
           /\ items[i].icon = "check"
           /\ \E k \in 1..Len(items[i].timed) :
                  items[i].timed[k] = [part |-> "+", ms |-> 5000, slow |-> FALSE]

\* the event behind a listed step row
ItemEvent(item) == sourceEvents[item.stepIndex + 1]

\* C10: the row of an error event carries no slow indication, neither the
\* slow icon nor the SLOW marker in its timing description.
C10_ErrorNeverSlow ==
    pcExplorer \in {"done", "expanded"}
        => \A i \in 1..Len(items) :
               (items[i].kind = "step" /\ isErrorEvent(ItemEvent(items[i])))
                   => /\ items[i].icon # "clock"
                      /\ \A k \in 1..Len(items[i].timed) : ~items[i].timed[k].slow

\* the samples the other trace files of the folder contribute
OtherFilesStats == buildDurationStatsFromFolder(siblings)

\* C18: the duration statistics hold the samples of the other .json/.jsonl
\* files of the active trace's folder only; no duration recorded in the
\* active trace file is counted in the per-class or global pools.
C18_ActiveFileNotCounted ==
    (pcExplorer \in {"done", "expanded"} /\ docUri.scheme = "file")
        => stats = OtherFilesStats

----------------------------------------------------------------------------
(* Transport encoding of the diagram for the render server.  Bytes are the  *)
(* integers 0..255 of a Uint8Array.                                         *)

\* encode6bit(b): String.fromCharCode(48 + b), (65 + b - 10), (97 + b - 36)
encode6bit(b) ==
    IF b < 10 THEN SubSeq(Digits, b + 1, b + 1)
    ELSE IF b < 36 THEN SubSeq(UpperLetters, b - 10 + 1, b - 10 + 1)
    ELSE IF b < 62 THEN SubSeq(LowerLetters, b - 36 + 1, b - 36 + 1)
    ELSE IF b = 62 THEN "-"
    ELSE IF b = 63 THEN "_"
    ELSE "?"

\* faulty variant: the second group loses the high bits of the second byte
append3bytes_DropBits(b1, b2, b3) ==
    LET c1 == b1 \div 4
        c2 == (b1 % 4) * 16
        c3 == ((b2 % 16) * 4) + (b3 \div 64)
        c4 == b3 % 64
    IN encode6bit(c1 % 64) \o encode6bit(c2 % 64) \o encode6bit(c3 % 64) \o encode6bit(c4 % 64)

\* append3bytes: >> n is \div 2^n, & (2^n - 1) is % 2^n, << n is * 2^n, and
\* | adds up because its operands share no bit
append3bytes(b1, b2, b3) ==
    LET c1 == b1 \div 4
        c2 == ((b1 % 4) * 16) + (b2 \div 16)
        c3 == ((b2 % 16) * 4) + (b3 \div 64)
        c4 == b3 % 64
    IN encode6bit(c1 % 64) \o encode6bit(c2 % 64) \o encode6bit(c3 % 64) \o encode6bit(c4 % 64)

\* data[i] ?? 0 for the 0-based index i
ByteAt(bytes, i) == IF i + 1 <= Len(bytes) THEN bytes[i + 1] ELSE 0

\* the for loop of plantUmlEncodeBytes over the 0-based groups lo..hi
\* (i = 3 * lo, ..., 3 * hi), evaluated by halves
RECURSIVE EncodeGroups(_, _, _)
EncodeGroups(bytes, lo, hi) ==
    IF lo > hi THEN ""
    ELSE IF lo = hi
    THEN append3bytes(ByteAt(bytes, 3 * lo), ByteAt(bytes, 3 * lo + 1), ByteAt(bytes, 3 * lo + 2))
    ELSE LET mid == (lo + hi) \div 2
         IN EncodeGroups(bytes, lo, mid) \o EncodeGroups(bytes, mid + 1, hi)

\* faulty variant: a final partial group is dropped instead of zero-padded
plantUmlEncodeBytes_DropPartial(bytes) == EncodeGroups(bytes, 0, (Len(bytes) \div 3) - 1)

\* one group for every i < data.length in steps of 3
plantUmlEncodeBytes(bytes) == EncodeGroups(bytes, 0, ((Len(bytes) + 2) \div 3) - 1)

----------------------------------------------------------------------------
(* Encoder specification: a byte sequence is written, then encoded *)

MaxBytes == 3

\* byte values on the edges of the bit fields
EdgeBytes == {0, 1, 63, 255}

\* the byte sequences tried: any byte value at one position, edge values at
\* the others
AtMostOneFreeByte(bytes) == Cardinality({i \in 1..Len(bytes) : bytes[i] \notin EdgeBytes}) <= 1

InitEncode ==
    /\ data = <<>>
    /\ encoded = ""
    /\ pcEncode = "edit"
    /\ cfgBaseUrl = Undefined
    /\ target = [url |-> "", copyPumlToClipboard |-> FALSE]
    /\ pcRender = "off"
    /\ activeEditor = TRUE /\ PumlOff /\ CommandOff /\ ThresholdOff
    /\ text = <<>> /\ parsed = <<>> /\ pcParse = "off"
    /\ prevState = Null /\ nextState = Null
    /\ delta = <<>> /\ refDelta = <<>>
    /\ pcDiff = "off"
    /\ events = <<>> /\ timing = NoTiming
    /\ pcTiming = "off"
    /\ ExplorerOff

\* the compressor hands over one more byte
AppendByte ==
    /\ pcEncode = "edit"
    /\ Len(data) < MaxBytes
    /\ \E b \in 0..255 :
           /\ AtMostOneFreeByte(Append(data, b))
           /\ data' = Append(data, b)
    /\ UNCHANGED <<encoded, pcEncode>>
    /\ UNCHANGED <<engineVars, activeEditor, pumlVars, renderVars, commandVars, thresholdVars>>

EncodeBytes ==
    /\ pcEncode = "edit"
    /\ encoded' = plantUmlEncodeBytes(data)
    /\ pcEncode' = "done"
    /\ UNCHANGED data
    /\ UNCHANGED <<engineVars, activeEditor, pumlVars, renderVars, commandVars, thresholdVars>>

NextEncode == AppendByte \/ EncodeBytes

SpecEncode == InitEncode /\ [][NextEncode]_vars

----------------------------------------------------------------------------
(* Encoder properties *)

\* the alphabet of the claim: digits, uppercase, lowercase, "-" and "_"
Alphabet64 == Digits \o UpperLetters \o LowerLetters \o "-_"

AlphabetChar(c) == SubSeq(Alphabet64, c + 1, c + 1)

\* the number of three-byte groups of n bytes: ceil(n / 3)
GroupCount(n) == (n + 2) \div 3

\* the six-bit values of a group of three bytes
SixBitGroups(b1, b2, b3) ==
    <<b1 \div 4, ((b1 % 4) * 16) + (b2 \div 16), ((b2 % 16) * 4) + (b3 \div 64), b3 % 64>>

DecodeChar(c) == (CHOOSE i \in 1..64 : SubSeq(Alphabet64, i, i) = c) - 1

\* the inverse unpacking: 4 characters from the 1-based position i give 3 bytes
DecodeGroup(s, i) ==
    LET c1 == DecodeChar(SubSeq(s, i, i))
        c2 == DecodeChar(SubSeq(s, i + 1, i + 1))
        c3 == DecodeChar(SubSeq(s, i + 2, i + 2))
        c4 == DecodeChar(SubSeq(s, i + 3, i + 3))
    IN <<(c1 * 4) + (c2 \div 16), ((c2 % 16) * 16) + (c3 \div 4), ((c3 % 4) * 64) + c4>>

RECURSIVE DecodeFrom(_, _)
DecodeFrom(s, i) == IF i + 3 > Len(s) THEN <<>> ELSE DecodeGroup(s, i) \o DecodeFrom(s, i + 4)

Decode(s) == DecodeFrom(s, 1)

----------------------------------------------------------------------------
(* Render target: the URL opened on the render server *)

MaxUrlLength == 7000

DefaultBaseUrl == "https://www.planttext.com"

\* s.includes(c) for a single character c
StrIncludes(s, c) == \E i \in 1..Len(s) : SubSeq(s, i, i) = c

\* s.split(c)[0]: the part of s before the first c
BeforeFirst(s, c) ==
    IF ~StrIncludes(s, c) THEN s
    ELSE SubSeq(s, 1, (CHOOSE i \in 1..Len(s) : SubSeq(s, i, i) = c /\ \A j \in 1..(i - 1) : SubSeq(s, j, j) # c) - 1)

\* the base URL of buildPumlRenderTarget for the configured value cfg
RenderBase(cfg) ==
    LET rawBase == IF asNonEmptyString(cfg) # "" THEN asNonEmptyString(cfg) ELSE DefaultBaseUrl
    IN IF StrTrim(rawBase) # "" THEN StrTrim(rawBase) ELSE DefaultBaseUrl

\* faulty variant: a URL of exactly the limit already takes the fallback
buildPumlRenderTarget_AtLimit(cfg, compressed) ==
    LET base == RenderBase(cfg)
        sep == IF StrIncludes(base, "?") THEN "&" ELSE "?"
        full == base \o sep \o "text=" \o plantUmlEncodeBytes(compressed)
        noQuery == IF BeforeFirst(base, "?") # "" THEN BeforeFirst(base, "?") ELSE DefaultBaseUrl
    IN IF Len(full) >= MaxUrlLength
       THEN [url |-> noQuery, copyPumlToClipboard |-> TRUE]
       ELSE [url |-> full, copyPumlToClipboard |-> FALSE]

\* buildPumlRenderTarget for the configured base URL cfg and the bytes that
\* deflateRawSync (zlib) returned for the diagram text; url is the string
\* handed to vscode.Uri.parse
buildPumlRenderTarget(cfg, compressed) ==
    LET base == RenderBase(cfg)
        sep == IF StrIncludes(base, "?") THEN "&" ELSE "?"
        full == base \o sep \o "text=" \o plantUmlEncodeBytes(compressed)
        noQuery == IF BeforeFirst(base, "?") # "" THEN BeforeFirst(base, "?") ELSE DefaultBaseUrl
    IN IF Len(full) > MaxUrlLength
       THEN [url |-> noQuery, copyPumlToClipboard |-> TRUE]
       ELSE [url |-> full, copyPumlToClipboard |-> FALSE]

----------------------------------------------------------------------------
(* Render specification: buildPumlRenderTarget on compressed diagrams whose *)
(* URLs fall on both sides of the length limit                              *)

\* the pumlBaseUrl setting: unset, blank, not a string, the default with a
\* trailing slash (26 characters after trimming), 27 characters, one with a
\* query string, and a bare query
BaseUrlChoices ==
    { Undefined, Num(5), Str("   "),
      Str(" https://www.planttext.com/ "),
      Str("https://www.planttext.com/u"),
      Str("https://render.example/uml?lang=en"),
      Str("?x=1") }

\* compressed diagrams by size: n bytes give 4 * ceil(n / 3) characters
CompressedSizes == {0, 2, 3, 5220, 5223, 5224, 5225, 5226, 5227, 5229, 5232, 6000}

CompressedBytes(n) == [i \in 1..n |-> (i * 37) % 256]

InitRender ==
    /\ cfgBaseUrl \in BaseUrlChoices
    /\ data \in {CompressedBytes(n) : n \in CompressedSizes}
    /\ encoded = ""
    /\ pcEncode = "off"
    /\ target = [url |-> "", copyPumlToClipboard |-> FALSE]
    /\ pcRender = "ready"
    /\ activeEditor = TRUE /\ PumlOff /\ CommandOff /\ ThresholdOff
    /\ text = <<>> /\ parsed = <<>> /\ pcParse = "off"
    /\ prevState = Null /\ nextState = Null
    /\ delta = <<>> /\ refDelta = <<>>
    /\ pcDiff = "off"
    /\ events = <<>> /\ timing = NoTiming
    /\ pcTiming = "off"
    /\ ExplorerOff

BuildPumlRenderTarget ==
    /\ pcRender = "ready"
    /\ encoded' = plantUmlEncodeBytes(data)
    /\ target' = buildPumlRenderTarget(cfgBaseUrl, data)
    /\ pcRender' = "done"
    /\ UNCHANGED <<data, pcEncode, cfgBaseUrl>>
    /\ UNCHANGED <<engineVars, activeEditor, pumlVars, commandVars, thresholdVars>>

NextRender == BuildPumlRenderTarget

SpecRender == InitRender /\ [][NextRender]_vars

----------------------------------------------------------------------------
(* Render properties *)

\* the URL assembled from the base and the encoded payload
AssembledUrl ==
    RenderBase(cfgBaseUrl) \o (IF StrIncludes(RenderBase(cfgBaseUrl), "?") THEN "&" ELSE "?")
        \o "text=" \o encoded

\* C15: the payload is never truncated.  When the assembled URL is longer
\* than 7000 characters the clipboard flag is set and the URL has no query,
\* hence no text payload; otherwise the flag is clear and the URL is the
\* assembled URL, which ends with the complete encoded payload.
C15_NeverTruncated ==
    pcRender = "done"
        => IF Len(AssembledUrl) > MaxUrlLength
           THEN /\ target.copyPumlToClipboard = TRUE
                /\ ~StrIncludes(target.url, "?")
                /\ ~StrIncludes(target.url, "=")
                /\ target.url # ""
           ELSE /\ target.copyPumlToClipboard = FALSE
                /\ target.url = AssembledUrl
                /\ SubSeq(target.url, Len(target.url) - Len(encoded) + 1, Len(target.url)) = encoded

\* a URL of 7001 characters on a base with a query string: the fallback
\* opens the base without its query
C15_Witness ==
    /\ pcRender = "done"
    /\ Len(AssembledUrl) = MaxUrlLength + 1
    /\ target = [url |-> "https://www.planttext.com/u", copyPumlToClipboard |-> TRUE]

\* a URL of exactly 7000 characters is opened with its whole payload
C15_AtLimitWitness ==
    /\ pcRender = "done"
    /\ Len(AssembledUrl) = MaxUrlLength
    /\ target.copyPumlToClipboard = FALSE
    /\ target.url = AssembledUrl

----------------------------------------------------------------------------
(* Activity diagram.  A diagram is a text; its lines are joined by "\n".    *)

MaxJumpLines == 80
MaxRepeatedLines == 20
MaxPositions == 8

\* two digits of n < 100
TwoDigits(n) == (IF n < 10 THEN "0" ELSE "") \o ToString(n)

\* formatSeconds(ms) for a whole number of milliseconds ms >= 0.  toFixed
\* rounds to the nearest value; a tie (a 5 in the first dropped digit) is
\* rounded by the binary value of ms / 1000 in the code and upwards here.
formatSeconds(ms) ==
    IF ms < 1000
    THEN LET h == (ms + 5) \div 10 IN ToString(h \div 100) \o "," \o TwoDigits(h % 100) \o "s"
    ELSE IF ms < 10000
    THEN LET t == (ms + 50) \div 100 IN ToString(t \div 10) \o "," \o ToString(t % 10) \o "s"
    ELSE ToString((ms + 500) \div 1000) \o "s"

\* s.replace(/"/g, "'")
escapePumlLabel(s) == MapChars(s, [c \in {"\""} |-> "'"])

\* getNextStepId(ev), "" standing for null
getNextStepId(ev) ==
    LET c == <<asNonEmptyString(Get(Get(ev, "out"), "next_step_id")),
               asNonEmptyString(Get(Get(ev, "step"), "next_resolved")),
               asNonEmptyString(Get(ev, "next_step_id")),
               asNonEmptyString(Get(ev, "nextStepId")),
               asNonEmptyString(Get(ev, "next"))>>
    IN IF \A i \in 1..Len(c) : c[i] = "" THEN ""
       ELSE c[CHOOSE i \in 1..Len(c) : c[i] # "" /\ \A j \in 1..(i - 1) : c[j] = ""]

\* a || b on strings, "" standing for null
OrElse(a, b) == IF a # "" THEN a ELSE b

\* the node of event ev at 1-based position i with its step timing t; idx is
\* 0-based as in the code
NodeOf(ev, i, t) ==
    [idx |-> i - 1,
     stepId |-> OrElse(EventStepId(ev), "step_" \o ToString(i)),
     actionClass |-> OrElse(getActionClass(ev), "action"),
     status |-> IF isErrorEvent(ev) THEN "ERROR" ELSE "ok",
     nextStepId |-> getNextStepId(ev),
     elapsedMs |-> t.elapsedMs,
     durationMs |-> t.durationMs]

NodesOf(evs, steps) == [i \in 1..Len(evs) |-> NodeOf(evs[i], i, steps[i])]

\* the nodes of buildActivityPuml
BuildNodes(evs) == NodesOf(evs, buildTraceTiming(evs).steps)

\* byStepId.get(id): the indexes of the nodes with step id id, ascending
IndexesOf(nodes, id) ==
    LET hits == SelectSeq([i \in 1..Len(nodes) |-> i], LAMBDA i : nodes[i].stepId = id)
    IN [k \in 1..Len(hits) |-> nodes[hits[k]].idx]

\* the keys of byStepId in insertion order: step ids by first occurrence
StepIdOrder(nodes) ==
    LET firsts == SelectSeq([i \in 1..Len(nodes) |-> i],
                            LAMBDA i : \A j \in 1..(i - 1) : nodes[j].stepId # nodes[i].stepId)
    IN [k \in 1..Len(firsts) |-> nodes[firsts[k]].stepId]

\* the order of localeCompare on the step ids of the traces
CollationOrder == <<"A", "A\nnote right\nB", "B", "C", "L", "S", "step_1", "step_2", "step_3", "step_4", "step_5",
                    "step_6", "step_7", "step_8", "step_9">>

CollationRank(id) ==
    IF \E i \in 1..Len(CollationOrder) : CollationOrder[i] = id
    THEN CHOOSE i \in 1..Len(CollationOrder) : CollationOrder[i] = id
    ELSE Len(CollationOrder) + 1

\* repeatedSteps: the step ids of more than one node, most frequent first,
\* then by localeCompare
RepeatedSteps(nodes) ==
    SortSeq(SelectSeq(StepIdOrder(nodes), LAMBDA id : Len(IndexesOf(nodes, id)) > 1),
            LAMBDA a, b :
                \/ Len(IndexesOf(nodes, a)) > Len(IndexesOf(nodes, b))
                \/ /\ Len(IndexesOf(nodes, a)) = Len(IndexesOf(nodes, b))
                   /\ CollationRank(a) < CollationRank(b))

\* faulty variant: only a declared next step gives an edge
EdgeTarget_DeclaredOnly(nodes, n) ==
    IF n.nextStepId # "" /\ Len(IndexesOf(nodes, n.nextStepId)) > 0
    THEN LET candidates == IndexesOf(nodes, n.nextStepId)
             later == SelectSeq(candidates, LAMBDA idx : idx > n.idx)
         IN IF Len(later) > 0 THEN later[1] ELSE candidates[1]
    ELSE -1

\* the target of the edge leaving node n, -1 for none
EdgeTarget(nodes, n) ==
    IF n.nextStepId # "" /\ Len(IndexesOf(nodes, n.nextStepId)) > 0
    THEN LET candidates == IndexesOf(nodes, n.nextStepId)
             later == SelectSeq(candidates, LAMBDA idx : idx > n.idx)
         IN IF Len(later) > 0 THEN later[1] ELSE candidates[1]
    ELSE IF n.idx + 1 < Len(nodes) THEN n.idx + 1
    ELSE -1

\* edges: the <<from, to>> pairs in the insertion order of the map
FlowEdges(nodes) ==
    LET from == SelectSeq([i \in 1..Len(nodes) |-> i], LAMBDA i : EdgeTarget(nodes, nodes[i]) # -1)
    IN [k \in 1..Len(from) |-> <<nodes[from[k]].idx, EdgeTarget(nodes, nodes[from[k]])>>]

stepLine(n) ==
    LET elapsed == IF n.elapsedMs # Null /\ n.elapsedMs.v >= 0 THEN formatSeconds(n.elapsedMs.v) ELSE "?"
        duration == IF n.durationMs # Null /\ n.durationMs.v >= 0 THEN formatSeconds(n.durationMs.v) ELSE "?"
        body == ToString(n.idx + 1) \o ". " \o n.stepId \o " (" \o n.actionClass \o ")\\nstatus="
                    \o n.status \o " | t=" \o elapsed \o " | +" \o duration
    IN ":" \o escapePumlLabel(body) \o ";"

\* the sum of the gaps between consecutive indexes
Coverage(indexes) == indexes[Len(indexes)] - indexes[1]

\* faulty variant: a step id that occurs twice is a loop already
ChosenIndexes_AnyRepeat(nodes) ==
    LET ids == SelectSeq(StepIdOrder(nodes), LAMBDA id : Len(IndexesOf(nodes, id)) >= 2)
        Better(a, b) ==
            \/ Coverage(IndexesOf(nodes, a)) > Coverage(IndexesOf(nodes, b))
            \/ /\ Coverage(IndexesOf(nodes, a)) = Coverage(IndexesOf(nodes, b))
               /\ IndexesOf(nodes, a)[1] < IndexesOf(nodes, b)[1]
    IN IF Len(ids) = 0 THEN <<>>
       ELSE IndexesOf(nodes, ids[CHOOSE i \in 1..Len(ids) : \A j \in 1..Len(ids) : j # i => Better(ids[i], ids[j])])

\* detectObservedIterations: the occurrences of the chosen step id, <<>> when
\* no step id occurs three times
ChosenIndexes(nodes) ==
    LET ids == SelectSeq(StepIdOrder(nodes), LAMBDA id : Len(IndexesOf(nodes, id)) >= 3)
        Better(a, b) ==
            \/ Coverage(IndexesOf(nodes, a)) > Coverage(IndexesOf(nodes, b))
            \/ /\ Coverage(IndexesOf(nodes, a)) = Coverage(IndexesOf(nodes, b))
               /\ IndexesOf(nodes, a)[1] < IndexesOf(nodes, b)[1]
    IN IF Len(ids) = 0 THEN <<>>
       ELSE IndexesOf(nodes, ids[CHOOSE i \in 1..Len(ids) : \A j \in 1..Len(ids) : j # i => Better(ids[i], ids[j])])

\* faulty variant: an iteration reaches through the next occurrence
detectObservedIterations_ThroughNext(nodes) ==
    LET chosen == ChosenIndexes(nodes)
    IN [i \in 1..(Len(chosen) - 1) |->
           [start |-> chosen[i], endExclusive |-> chosen[i + 1] + 1, iterationNo |-> i]]

detectObservedIterations(nodes) ==
    LET chosen == ChosenIndexes(nodes)
    IN [i \in 1..(Len(chosen) - 1) |->
           [start |-> chosen[i], endExclusive |-> chosen[i + 1], iterationNo |-> i]]

\* the while loop of buildActivityPuml from node index i on
RECURSIVE BodyLines(_, _, _)
BodyLines(nodes, iterations, i) ==
    IF i >= Len(nodes) THEN <<>>
    ELSE IF \A k \in 1..Len(iterations) : iterations[k].start # i
    THEN <<stepLine(nodes[i + 1])>> \o BodyLines(nodes, iterations, i + 1)
    ELSE LET it == iterations[CHOOSE k \in 1..Len(iterations) : iterations[k].start = i]
         IN <<"partition \"Loop iteration #" \o ToString(it.iterationNo) \o " (observed)\" {">>
                \o [k \in 1..(it.endExclusive - it.start) |-> stepLine(nodes[it.start + k])]
                \o <<"}">>
                \o BodyLines(nodes, iterations, it.endExclusive)

\* xs.slice(0, n)
Slice(xs, n) == SubSeq(xs, 1, IF Len(xs) < n THEN Len(xs) ELSE n)

\* numbers joined by ", "
RECURSIVE JoinNumbers(_)
JoinNumbers(xs) ==
    IF xs = <<>> THEN ""
    ELSE IF Len(xs) = 1 THEN ToString(xs[1])
    ELSE ToString(xs[1]) \o ", " \o JoinNumbers(Tail(xs))

\* the "Repeated steps" lines of the note
RepeatedLines(nodes) ==
    LET rep == RepeatedSteps(nodes)
        shown == Slice(rep, MaxRepeatedLines)
    IN [k \in 1..Len(shown) |->
           LET indexes == IndexesOf(nodes, shown[k])
               first == Slice(indexes, MaxPositions)
               positions == JoinNumbers([j \in 1..Len(first) |-> first[j] + 1])
               suffix == IF Len(indexes) > MaxPositions THEN ", ..." ELSE ""
           IN "- " \o escapePumlLabel(shown[k] \o " x" \o ToString(Len(indexes)) \o " @ [" \o positions \o suffix \o "]")]
       \o (IF Len(rep) > MaxRepeatedLines
           THEN <<"- ... and " \o ToString(Len(rep) - MaxRepeatedLines) \o " more">>
           ELSE <<>>)

\* the note block of buildActivityPuml
NoteLines(nodes) ==
    LET edges == FlowEdges(nodes)
        jumps == [k \in 1..Len(edges) |-> nodes[edges[k][1] + 1].stepId \o " -> " \o nodes[edges[k][2] + 1].stepId]
        shown == Slice(jumps, MaxJumpLines)
        rep == RepeatedSteps(nodes)
    IN IF Len(jumps) > 0
       THEN <<"note right", "Flow edges (inferred):">>
                \o [k \in 1..Len(shown) |-> "- " \o escapePumlLabel(shown[k])]
                \o (IF Len(jumps) > MaxJumpLines
                    THEN <<"- ... and " \o ToString(Len(jumps) - MaxJumpLines) \o " more">>
                    ELSE <<>>)
                \o (IF Len(rep) > 0 THEN <<"", "Repeated steps (loop signal):">> \o RepeatedLines(nodes) ELSE <<>>)
                \o <<"end note">>
       ELSE IF Len(rep) > 0
       THEN <<"note right", "Repeated steps (loop signal):">> \o RepeatedLines(nodes) \o <<"end note">>
       ELSE <<>>

\* lines.join("\n")
RECURSIVE JoinRows(_)
JoinRows(rows) ==
    IF rows = <<>> THEN ""
    ELSE IF Len(rows) = 1 THEN rows[1]
    ELSE rows[1] \o "\n" \o JoinRows(Tail(rows))

\* the lines of the diagram drawn for the nodes
ActivityLines(nodes) ==
    <<"@startuml", "title Trace Activity Flow (observed run)", "start">>
        \o (IF Len(nodes) = 0
            THEN <<":No events;">>
            ELSE BodyLines(nodes, detectObservedIterations(nodes), 0) \o NoteLines(nodes))
        \o <<"stop", "@enduml">>

buildActivityPuml(evs) == JoinRows(ActivityLines(BuildNodes(evs)))

\* x.trimEnd()
RECURSIVE TrimEnd(_)
TrimEnd(s) ==
    IF s = "" THEN s
    ELSE IF SubSeq(s, Len(s), Len(s)) \in Blanks THEN TrimEnd(SubSeq(s, 1, Len(s) - 1))
    ELSE s

\* puml.split(/\r?\n/): the rows between the line breaks, a "\r" before a
\* line break belonging to the break
RowsBetween(s, breaks) ==
    LET BreakAt(k) == IF k = 0 THEN 0
                      ELSE IF k > Len(breaks) THEN Len(s) + 1
                      ELSE breaks[k]
        RowEnd(k) == IF /\ BreakAt(k) <= Len(s)
                        /\ BreakAt(k) - 1 > BreakAt(k - 1)
                        /\ SubSeq(s, BreakAt(k) - 1, BreakAt(k) - 1) = "\r"
                     THEN BreakAt(k) - 2
                     ELSE BreakAt(k) - 1
    IN [k \in 1..(Len(breaks) + 1) |-> SubSeq(s, BreakAt(k - 1) + 1, RowEnd(k))]

SplitRows(s) ==
    RowsBetween(s, SelectSeq([i \in 1..Len(s) |-> i], LAMBDA i : SubSeq(s, i, i) = "\n"))

\* rows.some((r) => r.trim().toLowerCase() === word)
HasRow(rows, word) ==
    \E i \in 1..Len(rows) : Len(StrTrim(rows[i])) = Len(word) /\ ToLowerCase(StrTrim(rows[i])) = word

ensureClosedPuml(puml) ==
    LET split == SplitRows(puml)
        rows == [i \in 1..Len(split) |-> TrimEnd(split[i])]
    IN JoinRows(rows
                \o (IF HasRow(rows, "note right") /\ ~HasRow(rows, "end note") THEN <<"end note">> ELSE <<>>)
                \o (IF ~HasRow(rows, "stop") THEN <<"stop">> ELSE <<>>)
                \o (IF ~HasRow(rows, "@enduml") THEN <<"@enduml">> ELSE <<>>))

\* the events of src at the positions normalizeEventsForPuml keeps
NormalizedEvents(src) ==
    LET kept == normalizeEventsForPuml(src) IN [i \in 1..Len(kept) |-> src[kept[i]]]

\* the first of the two sources that has events
FirstWithEvents(fromEditor, fromLatest) ==
    IF Len(fromEditor) > 0 THEN fromEditor ELSE fromLatest

\* loadEventsForPuml: the active document's events, else those of latest.json
loadEventsForPuml(editorOpen, src, latest) ==
    FirstWithEvents(NormalizedEvents(IF editorOpen THEN src ELSE <<>>),
                    NormalizedEvents(IF latest.exists THEN latest.events ELSE <<>>))

NoEventsWarning == "No trace events found for PUML generation."
TooLongWarning == "PUML link is too long for reliable query rendering."

\* the diagram puml is handed to the render target as the text closed; with
\* tooLong, the copyPumlToClipboard flag of buildPumlRenderTarget, which
\* depends on the size of the compressed diagram, its text goes to the
\* clipboard and a warning is shown.  The set holds both outcomes.
ShowDiagram(puml, closed) ==
    { [warning |-> IF tooLong THEN TooLongWarning ELSE "",
       puml |-> puml,
       closed |-> closed,
       opened |-> TRUE,
       clipboard |-> IF tooLong THEN puml ELSE ""] : tooLong \in BOOLEAN }

RenderDiagram(puml) == ShowDiagram(puml, ensureClosedPuml(puml))

\* what the CMD_TRACE_OPEN_PUML handler can do with the loaded events evs
OpenPumlOutcome(evs) ==
    IF Len(evs) = 0
    THEN {[warning |-> NoEventsWarning, puml |-> "", closed |-> "", opened |-> FALSE, clipboard |-> ""]}
    ELSE RenderDiagram(buildActivityPuml(evs))

----------------------------------------------------------------------------
(* Diagram specification: a trace is written into the active document,      *)
(* then the open-diagram command runs                                       *)

MaxPumlEvents == 3

StepA == <<<<"step", Obj(<<<<"id", Str("A")>>>>)>>, <<"action", Obj(<<<<"class", Str("Fetch")>>>>)>>>>
StepB == <<<<"step", Obj(<<<<"id", Str("B")>>>>)>>, <<"action", Obj(<<<<"class", Str("Fetch")>>>>)>>>>

\* steps A and B with end timestamps, a step with a next-step pointer and a
\* duration, a step id that holds line breaks, a record with a class only,
\* a helper record, a record of the bare class "Action", an error step,
\* a step that names itself as its next step
PumlEventChoices ==
    { Obj(StepA \o <<<<"ts", Str("1970-01-01T00:00:00Z")>>>>),
      Obj(StepB \o <<<<"ts", Str("1970-01-01T00:00:01Z")>>>>),
      Obj(<<<<"step_id", Str("B")>>, <<"action", Obj(<<<<"class", Str("Rank")>>>>)>>,
            <<"next_step_id", Str("A")>>, <<"duration_ms", Num(500)>>>>),
      Obj(<<<<"step", Obj(<<<<"id", Str("A\nnote right\nB")>>>>)>>,
            <<"action", Obj(<<<<"class", Str("Fetch")>>>>)>>>>),
      Obj(<<<<"action_name", Str("Load")>>, <<"ts_ms", Num(3)>>>>),
      Obj(<<<<"message", Str("note")>>>>),
      Obj(<<<<"step_id", Str("C")>>, <<"action", Obj(<<<<"class", Str("Action")>>>>)>>>>),
      Obj(StepA \o <<<<"level", Str("error")>>, <<"ts", Str("1970-01-01T00:00:02Z")>>>>),
      Obj(<<<<"step_id", Str("S")>>, <<"action", Obj(<<<<"class", Str("Rank")>>>>)>>,
            <<"next_step_id", Str("S")>>>>) }

\* latest.json: missing, or a one-step trace
LatestChoices ==
    { [exists |-> FALSE, events |-> <<>>],
      [exists |-> TRUE, events |-> <<Obj(StepB \o <<<<"ts", Str("1970-01-01T00:00:01Z")>>>>)>>] }

InitPuml ==
    /\ activeEditor \in BOOLEAN
    /\ latestTrace \in LatestChoices
    /\ pumlSource = <<>>
    /\ diagram = [warning |-> "", puml |-> "", closed |-> "", opened |-> FALSE, clipboard |-> ""]
    /\ pcPuml = "edit"
    /\ TransportOff /\ CommandOff /\ ThresholdOff
    /\ text = <<>> /\ parsed = <<>> /\ pcParse = "off"
    /\ prevState = Null /\ nextState = Null
    /\ delta = <<>> /\ refDelta = <<>>
    /\ pcDiff = "off"
    /\ events = <<>> /\ timing = NoTiming
    /\ pcTiming = "off"
    /\ ExplorerOff

\* the pipeline appends one more record to the trace in the editor
AppendPumlEvent ==
    /\ pcPuml = "edit"
    /\ activeEditor
    /\ Len(pumlSource) < MaxPumlEvents
    /\ \E ev \in PumlEventChoices : pumlSource' = Append(pumlSource, ev)
    /\ UNCHANGED <<latestTrace, diagram, pcPuml, activeEditor>>
    /\ UNCHANGED <<engineVars, encodeVars, renderVars, commandVars, thresholdVars>>

\* the CMD_TRACE_OPEN_PUML handler; opened is TRUE when the render URL was
\* opened
OpenPuml ==
    /\ pcPuml = "edit"
    /\ diagram' \in OpenPumlOutcome(loadEventsForPuml(activeEditor, pumlSource, latestTrace))
    /\ pcPuml' = "done"
    /\ UNCHANGED <<pumlSource, latestTrace, activeEditor>>
    /\ UNCHANGED <<engineVars, encodeVars, renderVars, commandVars, thresholdVars>>

NextPuml == AppendPumlEvent \/ OpenPuml

SpecPuml == InitPuml /\ [][NextPuml]_vars

----------------------------------------------------------------------------
(* Diagram properties *)

\* the events the command draws
DrawnEvents == loadEventsForPuml(activeEditor, pumlSource, latestTrace)

\* the rows of the text handed to the render target
ClosedRows == SplitRows(diagram.closed)

IsPartitionOpen(row) ==
    /\ Len(row) > 11
    /\ SubSeq(row, 1, 10) = "partition "
    /\ SubSeq(row, Len(row), Len(row)) = "{"

\* C11: the text built by buildActivityPuml and passed through
\* ensureClosedPuml starts with @startuml, ends with stop followed by
\* @enduml, closes every partition it opens and follows every "note right"
\* by its "end note".
C11_DiagramClosed ==
    (pcPuml = "done" /\ diagram.opened)
        => LET rows == ClosedRows
               n == Len(rows)
           IN /\ n >= 3
              /\ rows[1] = "@startuml"
              /\ rows[n - 1] = "stop"
              /\ rows[n] = "@enduml"
              /\ \A i \in 1..n :
                     IsPartitionOpen(rows[i])
                         => \E j \in (i + 1)..n :
                                /\ rows[j] = "}"
                                /\ \A k \in (i + 1)..(j - 1) : ~IsPartitionOpen(rows[k])
              /\ \A i \in 1..n :
                     rows[i] = "note right"
                         => \E j \in (i + 1)..n :
                                /\ rows[j] = "end note"
                                /\ \A k \in (i + 1)..(j - 1) : rows[k] # "note right"

\* the minimal empty diagram
EmptyDiagram ==
    JoinRows(<<"@startuml", "title Trace Activity Flow (observed run)", "start", ":No events;", "stop", "@enduml">>)

\* C12: when no usable events exist the command still yields the minimal
\* empty diagram: no warning, and the empty diagram is opened.
C12_EmptyDiagramRendered ==
    (pcPuml = "done" /\ Len(DrawnEvents) = 0)
        => /\ diagram.warning = ""
           /\ diagram.opened
           /\ diagram.closed = EmptyDiagram

\* structural, no next-step pointer, an end timestamp and no other timing
EndStampedOnly(ev) ==
    /\ isStructuralStepEvent(ev)
    /\ getNextStepId(ev) = ""
    /\ getEventEndMs(ev) # Null
    /\ getEventStartMs(ev) = Null
    /\ getEventDurationMs(ev) = Null
    /\ ToUpperCase(asNonEmptyString(Get(ev, "event_type"))) # "CONSUME"

\* the row of the note that shows an edge
EdgeRow(from, to) == "- " \o from \o " -> " \o to

\* C17: for a trace of structural events without next-step pointers that
\* carry only end timestamps, the edges are exactly i -> i+1 for consecutive
\* nodes and the elapsed time of each event is its timestamp minus the
\* earliest timestamp of the trace.
C17_SequentialFlow ==
    (pcPuml = "done" /\ Len(DrawnEvents) > 0 /\ \A i \in 1..Len(DrawnEvents) : EndStampedOnly(DrawnEvents[i]))
        => LET evs == DrawnEvents
               nodes == BuildNodes(evs)
               first == MinMs([i \in 1..Len(evs) |-> getEventEndMs(evs[i])])
               rows == SplitRows(diagram.puml)
           IN /\ FlowEdges(nodes) = [k \in 1..(Len(evs) - 1) |-> <<k - 1, k>>]
              /\ \A i \in 1..Len(evs) : nodes[i].elapsedMs = Num(getEventEndMs(evs[i]).v - first.v)
              /\ \A k \in 1..(Len(evs) - 1) :
                     \E r \in 1..Len(rows) : rows[r] = EdgeRow(nodes[k].stepId, nodes[k + 1].stepId)
              /\ Cardinality({r \in 1..Len(rows) : Len(rows[r]) > 2 /\ SubSeq(rows[r], 1, 2) = "- "
                                                     /\ \E c \in 1..Len(rows[r]) : SubSeq(rows[r], c, c) = ">"})
                     = Len(evs) - 1

\* the edge target the flow description gives node n, -1 for none: a
\* declared next step that is the step id of another node leads to the
\* nearest later node of that id, else to the first node of that id; every
\* other node leads to its successor
DescribedTarget(nodes, n) ==
    LET same == {i \in 0..(Len(nodes) - 1) : nodes[i + 1].stepId = n.nextStepId}
        later == {i \in same : i > n.idx}
        Least(S) == CHOOSE i \in S : \A j \in S : i <= j
    IN IF n.nextStepId # "" /\ same \ {n.idx} # {}
       THEN IF later # {} THEN Least(later) ELSE Least(same)
       ELSE IF n.idx + 1 < Len(nodes) THEN n.idx + 1
       ELSE -1

\* C23: each node has at most one outgoing edge; a declared next-step id that
\* is the step id of another node leads to the nearest later node of that id,
\* or the first node of that id when none follows; in every other case (no
\* next-step id, an id of no node, an id of the node itself only) the edge
\* leads to the node at index + 1, and the last node has none.
C23_OutgoingEdge ==
    (pcPuml = "done" /\ Len(DrawnEvents) > 0)
        => LET nodes == BuildNodes(DrawnEvents)
               edges == FlowEdges(nodes)
               rows == SplitRows(diagram.puml)
           IN /\ \A j, k \in 1..Len(edges) : edges[j][1] = edges[k][1] => j = k
              /\ \A i \in 1..Len(nodes) :
                     /\ EdgeTarget(nodes, nodes[i]) = DescribedTarget(nodes, nodes[i])
                     /\ DescribedTarget(nodes, nodes[i]) # -1
                            => \E r \in 1..Len(rows) :
                                   rows[r] = "- " \o escapePumlLabel(nodes[i].stepId \o " -> "
                                                 \o nodes[DescribedTarget(nodes, nodes[i]) + 1].stepId)

\* A at T and B one second later: the single edge A -> B, elapsed(B) = 1000 ms
C17_Witness ==
    /\ pcPuml = "done"
    /\ Len(DrawnEvents) = 2
    /\ \A i \in 1..2 : EndStampedOnly(DrawnEvents[i])
    /\ BuildNodes(DrawnEvents)[1].stepId = "A"
    /\ BuildNodes(DrawnEvents)[2].stepId = "B"
    /\ FlowEdges(BuildNodes(DrawnEvents)) = <<<<0, 1>>>>
    /\ BuildNodes(DrawnEvents)[2].elapsedMs = Num(1000)
    /\ \E r \in 1..Len(SplitRows(diagram.puml)) : SplitRows(diagram.puml)[r] = "- A -> B"
    /\ \E r \in 1..Len(SplitRows(diagram.puml)) :
           SplitRows(diagram.puml)[r] = ":2. B (Fetch)\\nstatus=ok | t=1,0s | +1,0s;"

----------------------------------------------------------------------------
(* Step delta report *)

HeaderMessageLen == 500

\* the first of xs that is neither null nor undefined, null when there is none
Coalesce(xs) ==
    IF \A i \in 1..Len(xs) : IsNullish(xs[i]) THEN Null
    ELSE xs[CHOOSE i \in 1..Len(xs) : ~IsNullish(xs[i]) /\ \A j \in 1..(i - 1) : IsNullish(xs[j])]

getStateBefore(ev) ==
    Coalesce(<<Get(ev, "state_before"), Get(ev, "stateBefore"),
               Get(ev, "pipeline_state_before"), Get(ev, "pipelineStateBefore")>>)

getStateAfter(ev) ==
    Coalesce(<<Get(ev, "state_after"), Get(ev, "stateAfter"),
               Get(ev, "pipeline_state_after"), Get(ev, "pipelineStateAfter"), Get(ev, "state")>>)

\* the first string of xs that is not "", "" when there is none
FirstNonEmpty(xs) ==
    IF \A i \in 1..Len(xs) : xs[i] = "" THEN ""
    ELSE xs[CHOOSE i \in 1..Len(xs) : xs[i] # "" /\ \A j \in 1..(i - 1) : xs[j] = ""]

\* formatStepTitle: the number, id and class of "<n>. Id: <id>, class: <cls>"
formatStepTitle(ev, index) ==
    LET structuredId == asNonEmptyString(Get(Get(ev, "step"), "id"))
        structuredClass == asNonEmptyString(Get(Get(ev, "action"), "class"))
        explicitId == FirstNonEmpty(<<asNonEmptyString(Get(ev, "step_id")), asNonEmptyString(Get(ev, "stepId")),
                                      asNonEmptyString(Get(ev, "action_step_id"))>>)
        explicitClass == FirstNonEmpty(<<asNonEmptyString(Get(ev, "action_name")), asNonEmptyString(Get(ev, "actionName")),
                                         asNonEmptyString(Get(ev, "action")), asNonEmptyString(Get(ev, "type"))>>)
        trace == Get(getStateAfter(ev), "step_trace")
        inferred == IF IsArray(trace) /\ Len(trace.v) > 0 THEN asNonEmptyString(trace.v[Len(trace.v)]) ELSE ""
    IN [number |-> index + 1,
        id |-> FirstNonEmpty(<<structuredId, explicitId, inferred, "step">>),
        cls |-> FirstNonEmpty(<<structuredClass, explicitClass, inferred, "unknown">>)]

\* formatStepHeaderAsMarkdown: the items object, empty for "no step header info"
formatStepHeader(ev) ==
    LET ts == FirstNonEmpty(<<asNonEmptyString(Get(ev, "ts_utc")), asNonEmptyString(Get(ev, "ts")),
                              asNonEmptyString(Get(ev, "timestamp")), asNonEmptyString(Get(ev, "time"))>>)
        durationMs == IF TypeOf(Get(ev, "duration_ms")) = "number" THEN Get(ev, "duration_ms")
                      ELSE IF TypeOf(Get(ev, "durationMs")) = "number" THEN Get(ev, "durationMs")
                      ELSE Null
        level == asNonEmptyString(Get(ev, "level"))
        next == getNextStepId(ev)
        note == FirstNonEmpty(<<asNonEmptyString(Get(ev, "message")), asNonEmptyString(Get(ev, "note")),
                                asNonEmptyString(Get(ev, "summary"))>>)
    IN Obj((IF ts # "" THEN <<<<"ts_utc", Str(ts)>>>> ELSE <<>>)
           \o (IF durationMs # Null THEN <<<<"duration_ms", durationMs>>>> ELSE <<>>)
           \o (IF level # "" THEN <<<<"level", Str(level)>>>> ELSE <<>>)
           \o (IF next # "" THEN <<<<"next_step_id", Str(next)>>>> ELSE <<>>)
           \o (IF note # "" THEN <<<<"message", Str(truncate(note, HeaderMessageLen))>>>> ELSE <<>>))

\* a property read on null or undefined without ?. raises a TypeError:
\* getStateBefore(ev) on the selected event, getStateAfter on the previous
\* one when the selected event has no state before
StepDeltaThrows(evs, stepIndex) ==
    \/ IsNullish(evs[stepIndex + 1])
    \/ /\ getStateBefore(evs[stepIndex + 1]) = Null
       /\ stepIndex > 0
       /\ IsNullish(evs[stepIndex])

\* formatSingleStepDeltaAsMarkdown: the sections of the report
formatSingleStepDeltaAsMarkdown(evs, stepIndex) ==
    LET ev == evs[stepIndex + 1]
        own == getStateBefore(ev)
        before == IF own # Null THEN own
                  ELSE IF stepIndex > 0 THEN getStateAfter(evs[stepIndex]) ELSE Null
        after == getStateAfter(ev)
    IN [title |-> formatStepTitle(ev, stepIndex),
        header |-> formatStepHeader(ev),
        info |-> stripStateFields(ev),
        changes |-> IF IsFalsy(before) \/ IsFalsy(after) THEN [kind |-> "unavailable", delta |-> <<>>]
                    ELSE IF Len(diffTopLevel(before, after)) = 0 THEN [kind |-> "none", delta |-> <<>>]
                    ELSE [kind |-> "delta", delta |-> diffTopLevel(before, after)]]

\* doc.getText().trim() handed to the parser
parseTraceEventsFromActiveDocument(txt) == parseTraceEventsFromText(TrimTokens(txt))

NoEditorWarning == "No active editor."
NoTraceEventsWarning == "No trace events found in the active document."
InvalidIndexWarning == "Invalid step index."

NoReport == [t |-> "null", v |-> 0]

\* what the CMD_TRACE_OPEN_STEP_DELTA handler does for args.stepIndex = arg:
\* the warning it shows, the report document it opens, the error it raises
OpenStepDeltaOutcome(editorOpen, txt, arg) ==
    LET evs == parseTraceEventsFromActiveDocument(txt)
        idx == IF TypeOf(arg) = "number" THEN arg.v ELSE -1
    IN IF ~editorOpen THEN [warning |-> NoEditorWarning, report |-> NoReport, thrown |-> ""]
       ELSE IF Len(evs) = 0
       THEN [warning |-> NoTraceEventsWarning, report |-> NoReport, thrown |-> ""]
       ELSE IF idx < 0 \/ idx >= Len(evs)
       THEN [warning |-> InvalidIndexWarning, report |-> NoReport, thrown |-> ""]
       ELSE IF StepDeltaThrows(evs, idx)
       THEN [warning |-> "", report |-> NoReport, thrown |-> "TypeError"]
       ELSE [warning |-> "", report |-> formatSingleStepDeltaAsMarkdown(evs, idx), thrown |-> ""]

----------------------------------------------------------------------------
(* Step delta specification: the command runs on a document with an index *)

MaxStepIndex == 2

\* documents: empty, blank, no JSON, JSONL, raw arrays, wrapper objects, a
\* JSON value that is no trace, arrays with elements that are no objects
DeltaDocs ==
    { <<>>, <<" ", "\n">>, <<"x">>, <<"1">>, <<"{", "}">>, <<"[", "]">>,
      <<"A">>, <<"S">>, <<"S", "\n", "T">>, <<"S", "\n", "x", "\n", "T">>,
      <<"\n", "A", "\n", "B", "\n", "T", "\n">>,
      <<"[", "A", "]">>, <<"[", "S", ",", "T", "]">>, <<"[", "T", ",", "S", "]">>,
      <<"[", "S", ",", "S", ",", "T", "]">>,
      <<"[", "1", ",", "A", "]">>, <<"[", "null", "]">>, <<"[", "null", ",", "A", "]">>,
      <<"[", "[", "S", "]", ",", "T", "]">>,
      <<"{", "events:", "[", "S", ",", "T", "]", "}">>,
      <<"{", "events:", "[", "]", "}">>,
      <<"{", "k:", "[", "S", "]", "}">> }

StepArgChoices == {Undefined} \cup {Num(n) : n \in -1..MaxStepIndex}

InitStepDelta ==
    /\ activeEditor \in BOOLEAN
    /\ text \in DeltaDocs
    /\ parsed = <<>> /\ pcParse = "off"
    /\ stepArg = Undefined
    /\ outcome = [warning |-> "", report |-> NoReport, thrown |-> ""]
    /\ pcCommand = "idle"
    /\ deltaView = [warning |-> "", report |-> NoReport]
    /\ pcView = "off"
    /\ PumlOff /\ TransportOff /\ ThresholdOff
    /\ prevState = Null /\ nextState = Null
    /\ delta = <<>> /\ refDelta = <<>>
    /\ pcDiff = "off"
    /\ events = <<>> /\ timing = NoTiming
    /\ pcTiming = "off"
    /\ ExplorerOff

\* the CMD_TRACE_OPEN_STEP_DELTA handler
OpenStepDelta ==
    /\ pcCommand = "idle"
    /\ \E arg \in StepArgChoices :
           /\ stepArg' = arg
           /\ outcome' = OpenStepDeltaOutcome(activeEditor, text, arg)
    /\ pcCommand' = "done"
    /\ UNCHANGED <<deltaView, pcView>>
    /\ UNCHANGED <<activeEditor, pumlVars, encodeVars, renderVars, thresholdVars>>
    /\ UNCHANGED engineVars

NextStepDelta == OpenStepDelta

SpecStepDelta == InitStepDelta /\ [][NextStepDelta]_vars

----------------------------------------------------------------------------
(* Step delta properties *)

\* the events of the active document
DocEvents == parseTraceEventsFromActiveDocument(text)

\* the index is missing, negative or not below the length
IndexOutOfRange == stepArg.t # "num" \/ stepArg.v < 0 \/ stepArg.v >= Len(DocEvents)

\* C16: with a document open, the command reports exactly one outcome:
\* "no trace events found" exactly when the parsed sequence is empty,
\* "invalid step index" exactly when it is non-empty and the index is missing,
\* negative or >= its length, a report only when the index is within range,
\* and no report in the two failure cases.
C16_OneOutcome ==
    (pcCommand = "done" /\ activeEditor)
        => /\ (outcome.warning = NoTraceEventsWarning) <=> (Len(DocEvents) = 0)
           /\ (outcome.warning = InvalidIndexWarning) <=> (Len(DocEvents) > 0 /\ IndexOutOfRange)
           /\ (outcome.report # NoReport) => (Len(DocEvents) > 0 /\ ~IndexOutOfRange)
           /\ (outcome.warning # "") => (outcome.report = NoReport)
           /\ (outcome.warning # "") # (outcome.report # NoReport)

----------------------------------------------------------------------------
(* Consume specification: a trace of CONSUME records and steps is written   *)
(* record by record, then timed                                             *)

MaxConsumeEvents == 4

ConsumeRecord(sid, fields) ==
    Obj(<<<<"event_type", Str("consume")>>, <<"consumer_step_id", Str(sid)>>>> \o fields)

StepRecord(sid, fields) ==
    Obj(<<<<"step", Obj(<<<<"id", Str(sid)>>>>)>>>> \o fields)

\* CONSUME records for step "A" ending at 1 s and 3 s, in upper case with a
\* padded id, without end time, and for another step "B"; steps "A" ending
\* at 1 s and 3 s, with an own start time, and without end time
ConsumeTraceChoices ==
    { ConsumeRecord("A", <<<<"ts_ms", Num(1)>>>>),
      ConsumeRecord("A", <<<<"ts_ms", Num(3)>>>>),
      Obj(<<<<"event_type", Str("CONSUME")>>, <<"consumer_step_id", Str(" A ")>>, <<"ts_ms", Num(2)>>>>),
      ConsumeRecord("A", <<>>),
      ConsumeRecord("B", <<<<"ts_ms", Num(1)>>>>),
      StepRecord("A", <<<<"ts_ms", Num(1)>>>>),
      StepRecord("A", <<<<"ts_ms", Num(3)>>>>),
      StepRecord("A", <<<<"ts_ms", Num(3)>>, <<"started_at", Num(2)>>>>),
      StepRecord("A", <<>>) }

InitConsume == InitTiming

\* the pipeline appends one more record to the trace
AppendTraceRecord ==
    /\ pcTiming = "edit"
    /\ Len(events) < MaxConsumeEvents
    /\ \E ev \in ConsumeTraceChoices : events' = Append(events, ev)
    /\ UNCHANGED <<timing, pcTiming>>
    /\ UNCHANGED nonTimingVars

\* buildTraceTiming(events) on the written trace
TimeConsumeTrace ==
    /\ pcTiming = "edit"
    /\ timing' = buildTraceTiming(events)
    /\ pcTiming' = "done"
    /\ UNCHANGED events
    /\ UNCHANGED nonTimingVars

NextConsume == AppendTraceRecord \/ TimeConsumeTrace

SpecConsume == InitConsume /\ [][NextConsume]_vars

----------------------------------------------------------------------------
(* Consume properties *)

\* record ev queues a timestamp for consumer step s
QueuesFor(ev, s) ==
    /\ ToUpperCase(asNonEmptyString(Get(ev, "event_type"))) = "CONSUME"
    /\ asNonEmptyString(Get(ev, "consumer_step_id")) = s
    /\ getEventEndMs(ev) # Null

\* the document position of the CONSUME record whose timestamp step i takes:
\* the earliest one for the step's id that no earlier step took and that is
\* not later than the step's end; 0 when there is none
RECURSIVE TakenBy(_, _)
TakenBy(evs, i) ==
    LET s == EventStepId(evs[i])
        e == getEventEndMs(evs[i])
        free == {p \in 1..Len(evs) :
                     /\ QueuesFor(evs[p], s)
                     /\ getEventEndMs(evs[p]).v <= e.v
                     /\ \A j \in 1..(i - 1) : TakenBy(evs, j) # p}
    IN IF s = "" \/ e = Null \/ free = {} THEN 0
       ELSE CHOOSE p \in free : \A r \in free : p <= r

\* the start of step i when it takes no consume timestamp: its own start
\* time, else the end of the nearest earlier record that has one
StartWithoutConsume(evs, i) ==
    LET before == {j \in 1..(i - 1) : getEventEndMs(evs[j]) # Null}
    IN IF getEventStartMs(evs[i]) # Null THEN getEventStartMs(evs[i])
       ELSE IF before = {} THEN Null
       ELSE getEventEndMs(evs[CHOOSE j \in before : \A k \in before : k <= j])

\* C20: a step with id s and end time e takes as startMs the earliest-queued
\* consume timestamp of s not yet taken that is <= e, and none when there is
\* no such timestamp; no consume timestamp is taken by two steps, and a
\* consume-derived startMs is never later than the step's endMs.
C20_ConsumeMatching ==
    pcTiming = "done"
        => /\ \A i \in 1..Len(events) :
                  LET p == TakenBy(events, i)
                      t == timing.steps[i]
                  IN IF p > 0
                     THEN /\ t.startMs = getEventEndMs(events[p])
                          /\ t.endMs # Null
                          /\ t.startMs.v <= t.endMs.v
                     ELSE t.startMs = StartWithoutConsume(events, i)
           /\ \A i, j \in 1..Len(events) :
                  (i # j /\ TakenBy(events, i) > 0) => TakenBy(events, i) # TakenBy(events, j)

\* timestamps 3 s and 1 s are queued in this order for step "A"; the step
\* ending at 1 s passes over the first and takes the second, the later step
\* ending at 3 s takes the first
C20_Witness ==
    /\ pcTiming = "done"
    /\ Len(events) = 4
    /\ QueuesFor(events[1], "A") /\ getEventEndMs(events[1]) = Num(3000)
    /\ QueuesFor(events[2], "A") /\ getEventEndMs(events[2]) = Num(1000)
    /\ timing.steps[3] = [startMs |-> Num(1000), endMs |-> Num(1000), durationMs |-> Num(0), elapsedMs |-> Num(0)]
    /\ timing.steps[4].startMs = Num(3000)
    /\ timing.steps[4].endMs = Num(3000)

----------------------------------------------------------------------------
(* Threshold specification: the folder scan fills the pools sample by       *)
(* sample, then steps of several classes and durations are judged           *)

MaxSamples == 7

SampleEvent(cls, ms) == Obj(<<<<"action_name", Str(cls)>>, <<"duration_ms", Num(ms)>>>>)

\* durations of 10, 100 and 400 ms of class Fetch and one of class Rank
SampleChoices ==
    { SampleEvent("Fetch", 10), SampleEvent("Fetch", 100), SampleEvent("Fetch", 400),
      SampleEvent("Rank", 100) }

\* the classes and durations of the judged steps; "Load" has no pool
JudgedClasses == {"Fetch", "rank", "Load"}
JudgedDurations == {Null} \cup {Num(d) : d \in {0, 22, 150, 151, 220, 221, 500, 501, 880, 881}}

InitThreshold ==
    /\ verdict = <<>>
    /\ pcThreshold = "sample"
    /\ ExplorerOff
    /\ activeEditor = TRUE /\ PumlOff /\ TransportOff /\ CommandOff
    /\ text = <<>> /\ parsed = <<>> /\ pcParse = "off"
    /\ prevState = Null /\ nextState = Null
    /\ delta = <<>> /\ refDelta = <<>>
    /\ pcDiff = "off"
    /\ events = <<>> /\ timing = NoTiming
    /\ pcTiming = "off"

\* buildDurationStatsFromFolder reads one more event with a duration
ScanSample ==
    /\ pcThreshold = "sample"
    /\ Len(siblings) < MaxSamples
    /\ \E ev \in SampleChoices :
           /\ siblings' = Append(siblings, ev)
           /\ stats' = buildDurationStatsFromFolder(Append(siblings, ev))
    /\ UNCHANGED <<docUri, sourceEvents, items, children, pcExplorer>>
    /\ UNCHANGED <<verdict, pcThreshold>>
    /\ UNCHANGED <<parserVars, diffVars, timingVars>>
    /\ UNCHANGED <<activeEditor, pumlVars, encodeVars, renderVars, commandVars>>

\* percentile on the global pool, allowedDurationMs and isStepSlow for the
\* judged classes and durations.  percentile sorts a copy ([...values]), so
\* the pools stay as they are.
JudgeSteps ==
    /\ pcThreshold = "sample"
    /\ verdict' = [median |-> percentile(stats.global, 1, 2),
                   p90 |-> percentile(stats.global, 9, 10),
                   allowed |-> [c \in JudgedClasses |-> allowedDurationMs(c, stats)],
                   slow |-> [c \in JudgedClasses |-> {d \in JudgedDurations : isStepSlow(d, c, stats)}]]
    /\ pcThreshold' = "judged"
    /\ UNCHANGED explorerVars
    /\ UNCHANGED <<parserVars, diffVars, timingVars>>
    /\ UNCHANGED <<activeEditor, pumlVars, encodeVars, renderVars, commandVars>>

NextThreshold == ScanSample \/ JudgeSteps

SpecThreshold == InitThreshold /\ [][NextThreshold]_vars

----------------------------------------------------------------------------
(* Threshold properties *)

\* the pool a step of class cls is judged by: its class's pool when that has
\* 6 samples, the global pool otherwise
ChosenPool(cls) ==
    LET own == IF ToLowerCase(cls) \in DOMAIN stats.perClass THEN stats.perClass[ToLowerCase(cls)] ELSE <<>>
    IN IF Len(own) >= 6 THEN own ELSE stats.global

\* the greatest of three numbers
Max3(a, b, c) ==
    IF a >= b /\ a >= c THEN a ELSE IF b >= c THEN b ELSE c

\* max(150, 2.2 * median, 1.25 * p90) of the pool, in hundredths of a ms
AllowedByFormula(pool) ==
    Max3(15000, 220 * percentile(pool, 1, 2), 125 * percentile(pool, 9, 10))

\* C21: when the chosen pool has 6 samples the allowed duration is
\* max(150, 2.2 * median, 1.25 * p90) of that pool, and a step is slow exactly
\* when its duration is not null and strictly greater than the allowed value;
\* a duration equal to it, and any duration of at most 150 ms, is not slow.
C21_SlowIffAboveAllowed ==
    pcThreshold = "judged"
        => \A c \in JudgedClasses :
               Len(ChosenPool(c)) >= 6
                   => /\ verdict.allowed[c] = Num(AllowedByFormula(ChosenPool(c)))
                      /\ \A d \in JudgedDurations :
                             /\ (d \in verdict.slow[c]) <=> (d # Null /\ 100 * d.v > AllowedByFormula(ChosenPool(c)))
                             /\ (d # Null /\ d.v <= 150) => d \notin verdict.slow[c]
                             /\ (d # Null /\ 100 * d.v = AllowedByFormula(ChosenPool(c))) => d \notin verdict.slow[c]

\* six Fetch samples of 100 ms: the allowed value is 220 ms, a step of
\* 220 ms is not slow and one of 221 ms is
C21_Witness ==
    /\ pcThreshold = "judged"
    /\ stats = [perClass |-> [k \in {"fetch"} |-> <<100, 100, 100, 100, 100, 100>>],
                global |-> <<100, 100, 100, 100, 100, 100>>]
    /\ verdict.allowed["Fetch"] = Num(22000)
    /\ Num(220) \notin verdict.slow["Fetch"]
    /\ Num(221) \in verdict.slow["Fetch"]

\* the sample at 1-based rank ceil(p * n) of the ascending pool, p = pNum / pDen
NearestRank(pool, pNum, pDen) ==
    SortSeq(pool, LAMBDA a, b : a < b)[(pNum * Len(pool) + pDen - 1) \div pDen]

\* C22: for a pool of at least 6 samples the median and the 90th percentile
\* are the samples at rank ceil(p * n) of the ascending-sorted pool, and the
\* pool itself keeps its order.
C22_NearestRank ==
    (pcThreshold = "judged" /\ Len(stats.global) >= 6)
        => /\ verdict.median = NearestRank(stats.global, 1, 2)
           /\ verdict.p90 = NearestRank(stats.global, 9, 10)
           /\ stats = buildDurationStatsFromFolder(siblings)

----------------------------------------------------------------------------
(* Flow specification: a sparse trace of up to MaxFlowEvents records, whose *)
(* steps carry an action name instead of an action class, is written into   *)
(* the active document, then the open-diagram command runs                  *)

MaxFlowEvents == 8

\* the loop step L, another step A, and a record without step id, which
\* becomes the node step_<position>
FlowEventChoices ==
    { Obj(<<<<"step_id", Str("L")>>, <<"action_name", Str("Fetch")>>>>),
      Obj(<<<<"step_id", Str("A")>>, <<"action_name", Str("Rank")>>>>),
      Obj(<<<<"action_name", Str("Load")>>>>) }

InitFlow ==
    /\ activeEditor = TRUE
    /\ latestTrace = [exists |-> FALSE, events |-> <<>>]
    /\ pumlSource = <<>>
    /\ diagram = [warning |-> "", puml |-> "", closed |-> "", opened |-> FALSE, clipboard |-> ""]
    /\ pcPuml = "edit"
    /\ TransportOff /\ CommandOff /\ ThresholdOff
    /\ text = <<>> /\ parsed = <<>> /\ pcParse = "off"
    /\ prevState = Null /\ nextState = Null
    /\ delta = <<>> /\ refDelta = <<>>
    /\ pcDiff = "off"
    /\ events = <<>> /\ timing = NoTiming
    /\ pcTiming = "off"
    /\ ExplorerOff

\* the pipeline appends one more record to the trace in the editor
AppendFlowEvent ==
    /\ pcPuml = "edit"
    /\ Len(pumlSource) < MaxFlowEvents
    /\ \E ev \in FlowEventChoices : pumlSource' = Append(pumlSource, ev)
    /\ UNCHANGED <<latestTrace, diagram, pcPuml, activeEditor>>
    /\ UNCHANGED <<engineVars, encodeVars, renderVars, commandVars, thresholdVars>>

NextFlow == AppendFlowEvent \/ OpenPuml

SpecFlow == InitFlow /\ [][NextFlow]_vars

\* the traces of up to MaxLoopEvents records, for the properties of the
\* render loop that need no longer trace
MaxLoopEvents == 7

\* the pipeline appends one more record to the trace in the editor
AppendLoopEvent ==
    /\ pcPuml = "edit"
    /\ Len(pumlSource) < MaxLoopEvents
    /\ \E ev \in FlowEventChoices : pumlSource' = Append(pumlSource, ev)
    /\ UNCHANGED <<latestTrace, diagram, pcPuml, activeEditor>>
    /\ UNCHANGED <<engineVars, encodeVars, renderVars, commandVars, thresholdVars>>

NextLoop == AppendLoopEvent \/ OpenPuml

SpecLoop == InitFlow /\ [][NextLoop]_vars

----------------------------------------------------------------------------
(* Flow properties *)

\* the rows of the diagram as built
PumlRows == SplitRows(diagram.puml)

\* the 0-based indexes at which step id occurs among the nodes, as a set
Occurrences(nodes, id) == {i \in 0..(Len(nodes) - 1) : nodes[i + 1].stepId = id}

\* the k-th smallest member of a set of numbers
Kth(S, k) == CHOOSE i \in S : Cardinality({j \in S : j < i}) = k - 1

\* the sum of the gaps between consecutive members of S
RECURSIVE GapSum(_)
GapSum(S) ==
    IF Cardinality(S) < 2 THEN 0
    ELSE LET top == Kth(S, Cardinality(S))
         IN (top - Kth(S, Cardinality(S) - 1)) + GapSum(S \ {top})

\* the step ids that occur at least 3 times
LoopCandidates(nodes) ==
    {nodes[i].stepId : i \in {j \in 1..Len(nodes) : Cardinality(Occurrences(nodes, nodes[j].stepId)) >= 3}}

\* the candidate of maximal gap sum, the one occurring first among equals
LoopStep(nodes) ==
    CHOOSE id \in LoopCandidates(nodes) :
        \A other \in LoopCandidates(nodes) \ {id} :
            \/ GapSum(Occurrences(nodes, id)) > GapSum(Occurrences(nodes, other))
            \/ /\ GapSum(Occurrences(nodes, id)) = GapSum(Occurrences(nodes, other))
               /\ Kth(Occurrences(nodes, id), 1) < Kth(Occurrences(nodes, other), 1)

\* one iteration per gap between the occurrences occ
IterationsBetween(occ) ==
    [k \in 1..(Cardinality(occ) - 1) |->
        [start |-> Kth(occ, k), endExclusive |-> Kth(occ, k + 1), iterationNo |-> k]]

\* one iteration per gap of the loop step
DescribedIterations(nodes) ==
    IF LoopCandidates(nodes) = {} THEN <<>>
    ELSE IterationsBetween(Occurrences(nodes, LoopStep(nodes)))

PartitionRow(k) == "partition \"Loop iteration #" \o ToString(k) \o " (observed)\" {"

\* the rows of iteration it are in the diagram: its partition row, the step
\* lines of its nodes, the closing brace
IterationDrawn(rows, nodes, it) ==
    \E r \in 1..Len(rows) :
        /\ rows[r] = PartitionRow(it.iterationNo)
        /\ r + (it.endExclusive - it.start) + 1 <= Len(rows)
        /\ \A k \in 1..(it.endExclusive - it.start) : rows[r + k] = stepLine(nodes[it.start + k])
        /\ rows[r + (it.endExclusive - it.start) + 1] = "}"

\* the iterations detected among the nodes are the described ones, and the
\* rows hold exactly their partitions
IterationsDrawn(rows, nodes, its) ==
    /\ detectObservedIterations(nodes) = its
    /\ \A k \in 1..Len(its) : IterationDrawn(rows, nodes, its[k])
    /\ Cardinality({r \in 1..Len(rows) : IsPartitionOpen(rows[r])}) = Len(its)

IterationsAsDescribed(rows, nodes) == IterationsDrawn(rows, nodes, DescribedIterations(nodes))

\* C24: among the step ids that occur at least 3 times the loop detection
\* takes the one of maximal gap sum, the earliest first occurrence among
\* equals, and yields one iteration per gap, iteration k from the k-th
\* occurrence up to but excluding the next; none when no step id occurs 3
\* times.
C24_LoopIterations ==
    (pcPuml = "done" /\ Len(DrawnEvents) > 0)
        => IterationsAsDescribed(PumlRows, BuildNodes(DrawnEvents))

\* step L at positions 2, 5 and 8 of eight nodes, no other step id repeated
\* three times: two iterations, nodes 2..4 and 5..7
C24_Witness ==
    /\ pcPuml = "done"
    /\ Len(DrawnEvents) = 8
    /\ Occurrences(BuildNodes(DrawnEvents), "L") = {1, 4, 7}
    /\ LoopCandidates(BuildNodes(DrawnEvents)) = {"L"}
    /\ detectObservedIterations(BuildNodes(DrawnEvents))
           = <<[start |-> 1, endExclusive |-> 4, iterationNo |-> 1],
               [start |-> 4, endExclusive |-> 7, iterationNo |-> 2]>>
    /\ \E r \in 1..Len(PumlRows) : PumlRows[r] = PartitionRow(2)

\* two step ids of equal gap sum: the one that occurs first is taken
C24_TieWitness ==
    /\ pcPuml = "done"
    /\ Occurrences(BuildNodes(DrawnEvents), "A") = {0, 2, 4}
    /\ Occurrences(BuildNodes(DrawnEvents), "L") = {1, 3, 5}
    /\ detectObservedIterations(BuildNodes(DrawnEvents))[1].start = 0

IsStepRow(row) == Len(row) > 0 /\ SubSeq(row, 1, 1) = ":"

\* what each row of the diagram is: a step line, a partition row, a closing
\* brace or another row
RowKinds(rows) ==
    [r \in 1..Len(rows) |->
        IF IsStepRow(rows[r]) THEN "step"
        ELSE IF IsPartitionOpen(rows[r]) THEN "open"
        ELSE IF rows[r] = "}" THEN "close"
        ELSE "other"]

\* the rows that hold the step lines, in order
StepRowsOf(kinds) == SelectSeq([r \in 1..Len(kinds) |-> r], LAMBDA r : kinds[r] = "step")

\* TRUE when row r lies between a partition row and its closing brace
InPartition(kinds, r) ==
    Cardinality({q \in 1..(r - 1) : kinds[q] = "open"})
        > Cardinality({q \in 1..(r - 1) : kinds[q] = "close"})

\* TRUE when the i-th step line of the diagram lies in a partition
NodeInPartition(rows, i) == InPartition(RowKinds(rows), StepRowsOf(RowKinds(rows))[i])

NodesInPartitions(kinds, at, nodes, its) ==
    /\ Len(at) = Len(nodes)
    /\ \A i \in 1..Len(nodes) :
           InPartition(kinds, at[i])
               <=> \E k \in 1..Len(its) : its[k].start <= i - 1 /\ i - 1 < its[k].endExclusive
    /\ Len(its) > 0 => ~InPartition(kinds, at[its[Len(its)].endExclusive + 1])

NodesOnceInOrder(rows, nodes, its) ==
    /\ SelectSeq(rows, IsStepRow) = [i \in 1..Len(nodes) |-> stepLine(nodes[i])]
    /\ \A k \in 1..Len(its) :
           /\ 0 <= its[k].start /\ its[k].start < its[k].endExclusive
           /\ its[k].endExclusive < Len(nodes)
           /\ k < Len(its) => its[k].endExclusive <= its[k + 1].start
    /\ NodesInPartitions(RowKinds(rows), StepRowsOf(RowKinds(rows)), nodes, its)

NodesOnce(rows, nodes) == NodesOnceInOrder(rows, nodes, detectObservedIterations(nodes))

\* C27: the step lines of the diagram are the step lines of the nodes, each
\* once, in index order; the iterations are disjoint contiguous index ranges
\* in increasing order; a node lies in a partition exactly when its index is
\* in an iteration's range, so the nodes outside every range, among them the
\* last occurrence of the loop step, are plain steps.
C27_EveryNodeOnce ==
    (pcPuml = "done" /\ Len(DrawnEvents) > 0)
        => NodesOnce(PumlRows, BuildNodes(DrawnEvents))

\* a node before the loop, two iterations, the last occurrence of the loop
\* step and a node after it
C27_Witness ==
    /\ pcPuml = "done"
    /\ Len(DrawnEvents) = 7
    /\ Occurrences(BuildNodes(DrawnEvents), "L") = {1, 3, 5}
    /\ LoopCandidates(BuildNodes(DrawnEvents)) = {"L"}
    /\ ~NodeInPartition(PumlRows, 1)
    /\ NodeInPartition(PumlRows, 2)
    /\ NodeInPartition(PumlRows, 5)
    /\ ~NodeInPartition(PumlRows, 6)
    /\ ~NodeInPartition(PumlRows, 7)

----------------------------------------------------------------------------
(* Normalisation specification: a mixed trace of up to MaxMixedEvents       *)
(* records is written into the active document, then the open-diagram       *)
(* command runs                                                             *)

MaxMixedEvents == 4

\* a structural step, a step whose id is the word "step", a sparse step with
\* an action name only, a record with a class and no step id, a helper
\* record without identity, a step of the bare class "Action", a record whose
\* id and class are both "unknown"
MixedEventChoices ==
    { Obj(StepA),
      Obj(<<<<"step_id", Str("step")>>, <<"action", Obj(<<<<"class", Str("Fetch")>>>>)>>>>),
      Obj(<<<<"step_id", Str("B")>>, <<"action_name", Str("Rank")>>>>),
      Obj(<<<<"action", Obj(<<<<"class", Str("Load")>>>>)>>>>),
      Obj(<<<<"message", Str("note")>>>>),
      Obj(<<<<"step_id", Str("C")>>, <<"action", Obj(<<<<"class", Str("Action")>>>>)>>>>),
      Obj(<<<<"step_id", Str("Unknown")>>, <<"action_name", Str("unknown")>>>>) }

\* the pipeline appends one more record to the trace in the editor
AppendMixedEvent ==
    /\ pcPuml = "edit"
    /\ Len(pumlSource) < MaxMixedEvents
    /\ \E ev \in MixedEventChoices : pumlSource' = Append(pumlSource, ev)
    /\ UNCHANGED <<latestTrace, diagram, pcPuml, activeEditor>>
    /\ UNCHANGED <<engineVars, encodeVars, renderVars, commandVars, thresholdVars>>

NextNormalize == AppendMixedEvent \/ OpenPuml

SpecNormalize == InitFlow /\ [][NextNormalize]_vars

----------------------------------------------------------------------------
(* Normalisation properties *)

\* the step id and the action class of a record, read from its fields
DeclaredStepId(ev) ==
    IF Get(Get(ev, "step"), "id").t = "str" /\ StrTrim(Get(Get(ev, "step"), "id").v) # ""
    THEN StrTrim(Get(Get(ev, "step"), "id").v)
    ELSE IF Get(ev, "step_id").t = "str" THEN StrTrim(Get(ev, "step_id").v)
    ELSE ""

DeclaredClass(ev) ==
    IF Get(Get(ev, "action"), "class").t = "str" THEN StrTrim(Get(Get(ev, "action"), "class").v) ELSE ""

\* the class an event resolves to: its action class, else its action name
ResolvedClass(ev) ==
    IF DeclaredClass(ev) # "" THEN DeclaredClass(ev)
    ELSE IF Get(ev, "action_name").t = "str" THEN StrTrim(Get(ev, "action_name").v)
    ELSE ""

\* strictly structural: a step id and an action class other than the
\* placeholders
StrictlyStructural(ev) ==
    /\ DeclaredStepId(ev) # ""
    /\ DeclaredClass(ev) # ""
    /\ ToLowerCase(DeclaredClass(ev)) \notin {"unknown", "action"}

\* a resolvable identity: a real step id or a real class, and not the bare
\* class "action"
HasIdentity(ev) ==
    /\ ToLowerCase(ResolvedClass(ev)) # "action"
    /\ \/ ToLowerCase(DeclaredStepId(ev)) \notin {"", "step", "unknown"}
       \/ ToLowerCase(ResolvedClass(ev)) \notin {"", "unknown"}

\* the positions described for a trace
DescribedPositions(src) ==
    IF Cardinality({i \in 1..Len(src) : StrictlyStructural(src[i])}) >= 3
    THEN SelectSeq([i \in 1..Len(src) |-> i], LAMBDA i : StrictlyStructural(src[i]))
    ELSE SelectSeq([i \in 1..Len(src) |-> i], LAMBDA i : HasIdentity(src[i]))

\* row is the first row of the step line of node number i with step id id
IsStepLineOf(row, i, id) ==
    /\ Len(row) >= Len(":" \o ToString(i) \o ". " \o id)
    /\ SubSeq(row, 1, Len(":" \o ToString(i) \o ". " \o id)) = ":" \o ToString(i) \o ". " \o id

\* the diagram rows that are step lines are those of the events of src at the
\* positions kept, in that order
KeptAreDrawn(rows, src, kept) ==
    /\ \A k \in 1..(Len(kept) - 1) : kept[k] < kept[k + 1]
    /\ \A k \in 1..Len(kept) : kept[k] \in 1..Len(src)
    /\ Len(kept) = 0 => diagram.warning = NoEventsWarning /\ ~diagram.opened
    /\ Len(kept) > 0
           => /\ Len(SelectSeq(rows, IsStepRow)) = Len(kept)
              /\ \A k \in 1..Len(kept) :
                     IsStepLineOf(SelectSeq(rows, IsStepRow)[k], k,
                                  OrElse(DeclaredStepId(src[kept[k]]), "step_" \o ToString(k)))

\* C25: normalizeEventsForPuml keeps the strictly structural events when
\* there are at least 3 of them, and otherwise the events with a resolvable
\* identity (all but those of the bare class "action" and those with neither
\* a real step id nor a real class); the result is a subsequence of the trace
\* in the original order, and it is what the diagram draws.
C25_NormalizedEvents ==
    pcPuml = "done"
        => /\ normalizeEventsForPuml(pumlSource) = DescribedPositions(pumlSource)
           /\ KeptAreDrawn(PumlRows, pumlSource, DescribedPositions(pumlSource))

\* three structural steps and a sparse step: the sparse step is dropped
C25_Witness ==
    /\ pcPuml = "done"
    /\ Len(pumlSource) = 4
    /\ \A i \in {1, 2, 4} : StrictlyStructural(pumlSource[i])
    /\ ~StrictlyStructural(pumlSource[3]) /\ HasIdentity(pumlSource[3])
    /\ normalizeEventsForPuml(pumlSource) = <<1, 2, 4>>
    /\ Len(SelectSeq(PumlRows, IsStepRow)) = 3

\* two structural steps, a sparse step and a helper record: the sparse step
\* is kept, the helper record is not
C25_SparseWitness ==
    /\ pcPuml = "done"
    /\ Len(pumlSource) = 4
    /\ Cardinality({i \in 1..4 : StrictlyStructural(pumlSource[i])}) = 2
    /\ normalizeEventsForPuml(pumlSource) = <<1, 2, 4>>
    /\ ~HasIdentity(pumlSource[3])
    /\ ~StrictlyStructural(pumlSource[4])

----------------------------------------------------------------------------
(* Closing specification: a diagram text of up to MaxRows rows is written,  *)
(* then ensureClosedPuml is applied to it                                   *)

MaxRows == 3

\* rows of a diagram text: the markers, a step line, a marker in another
\* spelling, an empty row
RowChoices ==
    {"@startuml", "start", ":A;", "note right", "end note", "stop", "@enduml", " Stop ", ""}

InitClose ==
    /\ activeEditor = TRUE
    /\ latestTrace = [exists |-> FALSE, events |-> <<>>]
    /\ pumlSource = <<>>
    /\ diagram = [warning |-> "", puml |-> "", closed |-> "", opened |-> FALSE, clipboard |-> ""]
    /\ pcPuml = "empty"
    /\ TransportOff /\ CommandOff /\ ThresholdOff
    /\ text = <<>> /\ parsed = <<>> /\ pcParse = "off"
    /\ prevState = Null /\ nextState = Null
    /\ delta = <<>> /\ refDelta = <<>>
    /\ pcDiff = "off"
    /\ events = <<>> /\ timing = NoTiming
    /\ pcTiming = "off"
    /\ ExplorerOff

\* the first row of the text
WriteFirstRow ==
    /\ pcPuml = "empty"
    /\ \E row \in RowChoices : diagram' = [diagram EXCEPT !.puml = row]
    /\ pcPuml' = "rows"
    /\ UNCHANGED <<pumlSource, latestTrace, activeEditor>>
    /\ UNCHANGED <<engineVars, encodeVars, renderVars, commandVars, thresholdVars>>

\* a line break and one more row
WriteNextRow ==
    /\ pcPuml = "rows"
    /\ Len(SplitRows(diagram.puml)) < MaxRows
    /\ \E row \in RowChoices : diagram' = [diagram EXCEPT !.puml = @ \o "\n" \o row]
    /\ UNCHANGED <<pcPuml, pumlSource, latestTrace, activeEditor>>
    /\ UNCHANGED <<engineVars, encodeVars, renderVars, commandVars, thresholdVars>>

\* ensureClosedPuml on the text written so far, the empty text included
ClosePuml ==
    /\ pcPuml \in {"empty", "rows"}
    /\ diagram' = [diagram EXCEPT !.closed = ensureClosedPuml(diagram.puml)]
    /\ pcPuml' = "closed"
    /\ UNCHANGED <<pumlSource, latestTrace, activeEditor>>
    /\ UNCHANGED <<engineVars, encodeVars, renderVars, commandVars, thresholdVars>>

NextClose == WriteFirstRow \/ WriteNextRow \/ ClosePuml

SpecClose == InitClose /\ [][NextClose]_vars

----------------------------------------------------------------------------
(* Closing properties *)

\* the last row is @enduml, the row before it is stop, and every
\* "note right" row has its "end note" before the next "note right"
IsClosedDiagram(rows) ==
    /\ Len(rows) >= 2
    /\ rows[Len(rows)] = "@enduml"
    /\ rows[Len(rows) - 1] = "stop"
    /\ \A i \in 1..Len(rows) :
           ToLowerCase(StrTrim(rows[i])) = "note right"
               => \E j \in (i + 1)..Len(rows) :
                      /\ ToLowerCase(StrTrim(rows[j])) = "end note"
                      /\ \A k \in (i + 1)..(j - 1) : ToLowerCase(StrTrim(rows[k])) # "note right"

\* C29: for every input text ensureClosedPuml returns a text whose last line
\* is @enduml, with the stop line before it and no unclosed "note right"
\* block.
C29_AlwaysClosed ==
    pcPuml = "closed" => IsClosedDiagram(ClosedRows)

----------------------------------------------------------------------------
(* Delta view *)

\* the loop of formatDeltaViewAsMarkdown over evs[i..] with its running
\* prevState: the sections of the steps
RECURSIVE DeltaViewSteps(_, _, _)
DeltaViewSteps(evs, i, prev) ==
    IF i > Len(evs) THEN <<>>
    ELSE <<[title |-> formatStepTitle(evs[i], i - 1),
            header |-> formatStepHeader(evs[i]),
            changes |-> IF isErrorEvent(evs[i])
                        THEN [kind |-> "error", full |-> getStateAfter(evs[i]), delta |-> <<>>]
                        ELSE IF IsNullish(getStateAfter(evs[i])) \/ IsNullish(prev)
                        THEN [kind |-> "unavailable", full |-> Null, delta |-> <<>>]
                        ELSE IF Len(diffTopLevel(prev, getStateAfter(evs[i]))) = 0
                        THEN [kind |-> "none", full |-> Null, delta |-> <<>>]
                        ELSE [kind |-> "delta", full |-> Null,
                              delta |-> diffTopLevel(prev, getStateAfter(evs[i]))]]>>
         \o DeltaViewSteps(evs, i + 1, Coalesce(<<getStateAfter(evs[i]), prev>>))

\* formatDeltaViewAsMarkdown: the START state, the step sections and the END
\* state of the report
formatDeltaViewAsMarkdown(evs) ==
    [start |-> Coalesce(<<getStateBefore(evs[1]), getStateAfter(evs[1])>>),
     steps |-> DeltaViewSteps(evs, 1, Coalesce(<<getStateBefore(evs[1]), getStateAfter(evs[1])>>)),
     end |-> getStateAfter(evs[Len(evs)])]

\* what the CMD_SHOW_DELTA handler does: nothing without an editor, a
\* warning for a document without events, else the report
ShowDeltaOutcome(editorOpen, evs) ==
    IF ~editorOpen THEN [warning |-> "", report |-> NoReport]
    ELSE IF Len(evs) = 0 THEN [warning |-> NoTraceEventsWarning, report |-> NoReport]
    ELSE [warning |-> "", report |-> formatDeltaViewAsMarkdown(evs)]

----------------------------------------------------------------------------
(* Views specification: on one trace document the Delta view command and    *)
(* the step delta command run, in either order                              *)

MaxViewEvents == 3

\* steps with a state after (S, T), a step without state (A), a step with
\* state before and after (U), an error step (E)
ViewTokens == {"S", "T", "A", "U", "E"}

RECURSIVE CommaJoined(_)
CommaJoined(toks) ==
    IF Len(toks) = 1 THEN <<toks[1]>> ELSE <<toks[1], ",">> \o CommaJoined(Tail(toks))

\* the raw-array documents of 1..MaxViewEvents events
ViewDocs ==
    UNION {{<<"[">> \o CommaJoined(toks) \o <<"]">> : toks \in [1..n -> ViewTokens]} : n \in 1..MaxViewEvents}

InitViews ==
    /\ activeEditor = TRUE
    /\ text \in ViewDocs
    /\ parsed = <<>> /\ pcParse = "off"
    /\ stepArg = Undefined
    /\ outcome = [warning |-> "", report |-> NoReport, thrown |-> ""]
    /\ pcCommand = "idle"
    /\ deltaView = [warning |-> "", report |-> NoReport]
    /\ pcView = "idle"
    /\ PumlOff /\ TransportOff /\ ThresholdOff
    /\ prevState = Null /\ nextState = Null
    /\ delta = <<>> /\ refDelta = <<>>
    /\ pcDiff = "off"
    /\ events = <<>> /\ timing = NoTiming
    /\ pcTiming = "off"
    /\ ExplorerOff

\* the CMD_SHOW_DELTA handler
ShowTraceDelta ==
    /\ pcView = "idle"
    /\ deltaView' = ShowDeltaOutcome(activeEditor, parseTraceEventsFromActiveDocument(text))
    /\ pcView' = "done"
    /\ UNCHANGED <<stepArg, outcome, pcCommand>>
    /\ UNCHANGED <<activeEditor, pumlVars, encodeVars, renderVars, thresholdVars>>
    /\ UNCHANGED engineVars

NextViews == ShowTraceDelta \/ OpenStepDelta

SpecViews == InitViews /\ [][NextViews]_vars

----------------------------------------------------------------------------
(* Views properties *)

\* the top-level fields a "Changed fields" section shows
ShownFields(changes) ==
    IF changes.kind = "delta" THEN {changes.delta[k].key : k \in 1..Len(changes.delta)} ELSE {}

\* both reports are open and the selected step is no error step
BothViewsOfStep ==
    /\ pcView = "done" /\ pcCommand = "done"
    /\ deltaView.report # NoReport
    /\ outcome.report # NoReport
    /\ ~isErrorEvent(DocEvents[stepArg.v + 1])

\* C30: for every trace and every step index whose event is not an error
\* event, the changed top-level fields the Delta view shows for the step are
\* those the step delta view shows for it.
C30_ViewsAgree ==
    BothViewsOfStep
        => ShownFields(deltaView.report.steps[stepArg.v + 1].changes) = ShownFields(outcome.report.changes)

====
